---------------------------- MODULE Spec2Model ----------------------------
(***************************************************************************)
(* rctl_exporter: the resource collection and parsing engine               *)
(* (src/rctl/rctl.go), the Prometheus collector that drives it             *)
(* (src/unnamed/part_004) and the program start (src/unnamed/part_006).    *)
(*                                                                         *)
(* A Go string is modelled as a sequence of one-character strings, so that *)
(* splitting, joining, formatting and numeric conversion are computed      *)
(* character by character as the library routines the code calls do.       *)
(***************************************************************************)
EXTENDS Integers, Sequences, FiniteSets, TLC

(***************************************************************************)
(* Bounds of the model.                                                    *)
(***************************************************************************)
\* longest raw accounting string handed to parseResource, in segments
MaxSegs == 3

\* scrape cycles in one run
MaxCollects == 1

\* changes of the host in one run
MaxHostChanges == 1

(***************************************************************************)
(* Strings.                                                                *)
(***************************************************************************)
DigitChars == <<"0", "1", "2", "3", "4", "5", "6", "7", "8", "9">>

IsDigit(c) == \E i \in 1..10 : DigitChars[i] = c

DigitVal(c) == (CHOOSE i \in 1..10 : DigitChars[i] = c) - 1

\* position of the first occurrence of character c in s at or after i, 0 if none
RECURSIVE IndexFrom(_, _, _)
IndexFrom(s, c, i) ==
    IF i > Len(s) THEN 0
    ELSE IF s[i] = c THEN i
    ELSE IndexFrom(s, c, i + 1)

\* strings.Split(s, sep) for a one-character separator: all the pieces,
\* a string without the separator (the empty string too) gives one piece
RECURSIVE Split(_, _)
Split(s, sep) ==
    LET p == IndexFrom(s, sep, 1) IN
    IF p = 0 THEN <<s>>
    ELSE <<SubSeq(s, 1, p - 1)>> \o Split(SubSeq(s, p + 1, Len(s)), sep)

\* strings.SplitN(s, sep, 2): cut at the first separator only
SplitN2(s, sep) ==
    LET p == IndexFrom(s, sep, 1) IN
    IF p = 0 THEN <<s>>
    ELSE <<SubSeq(s, 1, p - 1), SubSeq(s, p + 1, Len(s))>>

\* strings.Join(parts, sep)
RECURSIVE Join(_, _)
Join(parts, sep) ==
    IF parts = <<>> THEN <<>>
    ELSE IF Len(parts) = 1 THEN parts[1]
    ELSE parts[1] \o sep \o Join(Tail(parts), sep)

\* strings.HasPrefix(s, p) for a one-character prefix
HasPrefix(s, c) == Len(s) > 0 /\ s[1] = c

(***************************************************************************)
(* Integers.  Go's int is IntSize bits wide: 32 on the 32-bit FreeBSD      *)
(* targets, 64 on the others.  The model takes the 32-bit width; the       *)
(* conversions saturate in the same way at 64 bits.                        *)
(***************************************************************************)
IntSize == 32

MaxInt == (2 ^ (IntSize - 2) - 1) * 2 + 1

MinInt == (-MaxInt) - 1

\* strconv.Itoa
RECURSIVE ItoaNat(_)
ItoaNat(n) ==
    IF n < 10 THEN <<DigitChars[n + 1]>>
    ELSE ItoaNat(n \div 10) \o <<DigitChars[(n % 10) + 1]>>

Itoa(n) == IF n < 0 THEN <<"-">> \o ItoaNat(-n) ELSE ItoaNat(n)

\* strconv.ParseUint(s, 10, IntSize) as strconv.ParseInt uses it: the scan
\* goes left to right and stops at the first character that is no digit
\* (syntax error) or at the first digit that takes the value above
\* 2^IntSize - 1 (range error).  A value in MaxInt+1 .. 2^IntSize-1 is kept
\* as "big": the only thing ParseInt needs of it is whether it is MaxInt+1.
RECURSIVE ScanUint(_, _, _)
ScanUint(s, i, st) ==
    IF i > Len(s) THEN st
    ELSE IF ~IsDigit(s[i]) THEN [kind |-> "syntax", n |-> 0, exact |-> FALSE]
    ELSE LET d == DigitVal(s[i]) IN
         IF st.kind = "big" THEN [kind |-> "range", n |-> 0, exact |-> FALSE]
         ELSE IF st.n < MaxInt \div 10 \/ (st.n = MaxInt \div 10 /\ d <= MaxInt % 10)
              THEN ScanUint(s, i + 1, [kind |-> "num", n |-> st.n * 10 + d, exact |-> FALSE])
         ELSE IF st.n < (MaxInt \div 5) \/ (st.n = MaxInt \div 5 /\ d <= 5)
              THEN ScanUint(s, i + 1,
                            [kind |-> "big", n |-> 0,
                             exact |-> (st.n = MaxInt \div 10 /\ d = (MaxInt % 10) + 1)])
         ELSE [kind |-> "range", n |-> 0, exact |-> FALSE]

\* strconv.Atoi: the value and whether an error came with it.  A syntax
\* error gives 0; a range error gives the nearest bound of int.
Atoi(s) ==
    LET neg  == Len(s) > 0 /\ s[1] = "-"
        sgn  == Len(s) > 0 /\ s[1] \in {"+", "-"}
        body == IF sgn THEN Tail(s) ELSE s
        st   == ScanUint(body, 1, [kind |-> "num", n |-> 0, exact |-> FALSE])
    IN  IF body = <<>> \/ st.kind = "syntax" THEN [val |-> 0, err |-> TRUE]
        ELSE IF st.kind = "num" THEN [val |-> IF neg THEN -st.n ELSE st.n, err |-> FALSE]
        ELSE IF neg THEN [val |-> MinInt, err |-> ~(st.kind = "big" /\ st.exact)]
        ELSE [val |-> MaxInt, err |-> TRUE]

(***************************************************************************)
(* Text constants of the code, as character sequences.                     *)
(***************************************************************************)
K_cputime == <<"c", "p", "u", "t", "i", "m", "e">>
K_datasize == <<"d", "a", "t", "a", "s", "i", "z", "e">>
K_stacksize == <<"s", "t", "a", "c", "k", "s", "i", "z", "e">>
K_coredumpsize == <<"c", "o", "r", "e", "d", "u", "m", "p", "s", "i", "z", "e">>
K_memoryuse == <<"m", "e", "m", "o", "r", "y", "u", "s", "e">>
K_memorylocked == <<"m", "e", "m", "o", "r", "y", "l", "o", "c", "k", "e", "d">>
K_maxproc == <<"m", "a", "x", "p", "r", "o", "c">>
K_openfiles == <<"o", "p", "e", "n", "f", "i", "l", "e", "s">>
K_vmemoryuse == <<"v", "m", "e", "m", "o", "r", "y", "u", "s", "e">>
K_pseudoterminals == <<"p", "s", "e", "u", "d", "o", "t", "e", "r", "m", "i", "n", "a", "l", "s">>
K_swapuse == <<"s", "w", "a", "p", "u", "s", "e">>
K_nthr == <<"n", "t", "h", "r">>
K_msgqqueued == <<"m", "s", "g", "q", "q", "u", "e", "u", "e", "d">>
K_msgqsize == <<"m", "s", "g", "q", "s", "i", "z", "e">>
K_nmsgq == <<"n", "m", "s", "g", "q">>
K_nsem == <<"n", "s", "e", "m">>
K_nsemop == <<"n", "s", "e", "m", "o", "p">>
K_nshm == <<"n", "s", "h", "m">>
K_shmsize == <<"s", "h", "m", "s", "i", "z", "e">>
K_wallclock == <<"w", "a", "l", "l", "c", "l", "o", "c", "k">>
K_pcpu == <<"p", "c", "p", "u">>
K_readbps == <<"r", "e", "a", "d", "b", "p", "s">>
K_writebps == <<"w", "r", "i", "t", "e", "b", "p", "s">>
K_readiops == <<"r", "e", "a", "d", "i", "o", "p", "s">>
K_writeiops == <<"w", "r", "i", "t", "e", "i", "o", "p", "s">>

S_process == <<"p", "r", "o", "c", "e", "s", "s">>
S_user == <<"u", "s", "e", "r">>
S_loginclass == <<"l", "o", "g", "i", "n", "c", "l", "a", "s", "s">>
S_jail == <<"j", "a", "i", "l">>

\* SUPPORTED_SUBJECTS
SUPPORTED_SUBJECTS == <<S_process, S_user, S_loginclass, S_jail>>

RESRC_PROCESS == 1

RESRC_USER == 2

RESRC_LOGINCLASS == 3

RESRC_JAIL == 4

(***************************************************************************)
(* Resource: one accounting record.  The zero value is what Go's           *)
(* "var result Resource" gives.                                            *)
(***************************************************************************)
NumericFields ==
    {"CPUTime", "DataSize", "StackSize", "CoreDumpSize", "MemoryUse",
     "MemoryLocked", "MaxProc", "OpenFiles", "VMemoryUse", "PseudoTerminals",
     "SwapUse", "NThr", "MsgQQueued", "MsgQSize", "NMsgQ",
     "NSem", "NSemop", "NShm", "ShmSize", "WallClock",
     "PCpu", "ReadBps", "WriteBps", "ReadIops", "WriteIops"}

ZeroResource ==
    [f \in NumericFields |-> 0] @@
    [ResourceType |-> 0, ResourceID |-> <<>>, ProcessPPid |-> 0,
     ProcessCmdLine |-> <<>>, ProcessName |-> <<>>, UserName |-> <<>>,
     JailName |-> <<>>, LoginClassName |-> <<>>, RawResources |-> <<>>]

(***************************************************************************)
(* parseResource.                                                          *)
(***************************************************************************)
\* the chain of "if s[0] == key { result.Field, _ = strconv.Atoi(s[1]) }",
\* in the order of the code
KeyFields_nsemopIntoNSem ==
    <<<<K_cputime, "CPUTime">>,
      <<K_datasize, "DataSize">>,
      <<K_stacksize, "StackSize">>,
      <<K_coredumpsize, "CoreDumpSize">>,
      <<K_memoryuse, "MemoryUse">>,
      <<K_memorylocked, "MemoryLocked">>,
      <<K_maxproc, "MaxProc">>,
      <<K_openfiles, "OpenFiles">>,
      <<K_vmemoryuse, "VMemoryUse">>,
      <<K_pseudoterminals, "PseudoTerminals">>,
      <<K_swapuse, "SwapUse">>,
      <<K_nthr, "NThr">>,
      <<K_msgqqueued, "MsgQQueued">>,
      <<K_msgqsize, "MsgQSize">>,
      <<K_nmsgq, "NMsgQ">>,
      <<K_nsem, "NSem">>,
      <<K_nsemop, "NSem">>,
      <<K_nshm, "NShm">>,
      <<K_shmsize, "ShmSize">>,
      <<K_wallclock, "WallClock">>,
      <<K_pcpu, "PCpu">>,
      <<K_readbps, "ReadBps">>,
      <<K_writebps, "WriteBps">>,
      <<K_readiops, "ReadIops">>,
      <<K_writeiops, "WriteIops">>>>

KeyFields ==
    <<<<K_cputime, "CPUTime">>,
      <<K_datasize, "DataSize">>,
      <<K_stacksize, "StackSize">>,
      <<K_coredumpsize, "CoreDumpSize">>,
      <<K_memoryuse, "MemoryUse">>,
      <<K_memorylocked, "MemoryLocked">>,
      <<K_maxproc, "MaxProc">>,
      <<K_openfiles, "OpenFiles">>,
      <<K_vmemoryuse, "VMemoryUse">>,
      <<K_pseudoterminals, "PseudoTerminals">>,
      <<K_swapuse, "SwapUse">>,
      <<K_nthr, "NThr">>,
      <<K_msgqqueued, "MsgQQueued">>,
      <<K_msgqsize, "MsgQSize">>,
      <<K_nmsgq, "NMsgQ">>,
      <<K_nsem, "NSem">>,
      <<K_nsemop, "NSemop">>,
      <<K_nshm, "NShm">>,
      <<K_shmsize, "ShmSize">>,
      <<K_wallclock, "WallClock">>,
      <<K_pcpu, "PCpu">>,
      <<K_readbps, "ReadBps">>,
      <<K_writebps, "WriteBps">>,
      <<K_readiops, "ReadIops">>,
      <<K_writeiops, "WriteIops">>>>

\* the body of the loop for one segment already split in two: every "if" of
\* the chain, from the i-th on, whose key equals s[0] assigns its field (all
\* of them assign the same value, the conversion of s[1])
ApplyKeyFields(result, s, i) ==
    LET hit == {KeyFields[j][2] : j \in {k \in i..Len(KeyFields) : KeyFields[k][1] = s[1]}}
        v   == Atoi(s[2]).val
    IN  IF hit = {} THEN result
        ELSE [f \in DOMAIN result |-> IF f \in hit THEN v ELSE result[f]]

\* the variant of the loop that skips a segment it cannot split and goes on
RECURSIVE ParseSegments_continue(_, _, _)
ParseSegments_continue(result, rs, i) ==
    IF i > Len(rs) THEN result
    ELSE LET s == Split(rs[i], "=") IN
         IF Len(s) # 2 THEN ParseSegments_continue(result, rs, i + 1)
         ELSE ParseSegments_continue(ApplyKeyFields(result, s, 1), rs, i + 1)

\* for _, r := range strings.Split(resrc, ","): split r on every "=",
\* return at the first segment that does not give exactly two pieces
RECURSIVE ParseSegments(_, _, _)
ParseSegments(result, rs, i) ==
    IF i > Len(rs) THEN result
    ELSE LET s == Split(rs[i], "=") IN
         IF Len(s) # 2 THEN result
         ELSE ParseSegments(ApplyKeyFields(result, s, 1), rs, i + 1)

ResourceTypeOf(subject) ==
    IF subject = S_jail THEN RESRC_JAIL
    ELSE IF subject = S_loginclass THEN RESRC_LOGINCLASS
    ELSE IF subject = S_user THEN RESRC_USER
    ELSE IF subject = S_process THEN RESRC_PROCESS
    ELSE 0

\* the segments the loop went through before it returned
RECURSIVE ParsedPrefix(_, _)
ParsedPrefix(rs, i) ==
    IF i > Len(rs) \/ Len(Split(rs[i], "=")) # 2 THEN <<>>
    ELSE <<rs[i]>> \o ParsedPrefix(rs, i + 1)

\* the variant that keeps as RawResources only what it parsed
parseResource_rawOfParsed(subject, resrc) ==
    LET result == [ZeroResource EXCEPT !.ResourceType = ResourceTypeOf(subject),
                                       !.RawResources =
                                           Join(ParsedPrefix(Split(resrc, ","), 1), <<",">>)]
    IN  ParseSegments(result, Split(resrc, ","), 1)

parseResource(subject, resrc) ==
    LET result == [ZeroResource EXCEPT !.ResourceType = ResourceTypeOf(subject),
                                       !.RawResources = resrc]
    IN  ParseSegments(result, Split(resrc, ","), 1)


(***************************************************************************)
(* regexp.  The patterns of the model are written with literal characters, *)
(* ".", a postfix "*", "^", "$" and "(": the part of the RE2 syntax the     *)
(* filters of the README use, and "(" for a pattern that does not compile. *)
(* A compiled pattern is a sequence of atoms [kind, ch, star].             *)
(***************************************************************************)
\* the atom a pattern character stands for
AtomOf(c) ==
    IF c = "." THEN [kind |-> "any", ch |-> c, star |-> FALSE]
    ELSE IF c = "^" THEN [kind |-> "bol", ch |-> c, star |-> FALSE]
    ELSE IF c = "$" THEN [kind |-> "eol", ch |-> c, star |-> FALSE]
    ELSE [kind |-> "lit", ch |-> c, star |-> FALSE]

\* regexp.Compile: ok is FALSE for a repetition operator with nothing to
\* repeat ("*a"), a repetition of a repetition ("a**") and a group that is
\* not closed ("(a")
RECURSIVE CompileFrom(_, _, _)
CompileFrom(p, i, atoms) ==
    IF i > Len(p) THEN [ok |-> TRUE, atoms |-> atoms]
    ELSE IF p[i] \in {"(", ")"} THEN [ok |-> FALSE, atoms |-> <<>>]
    ELSE IF p[i] = "*"
         THEN IF atoms = <<>> \/ atoms[Len(atoms)].star
              THEN [ok |-> FALSE, atoms |-> <<>>]
              ELSE CompileFrom(p, i + 1,
                               [atoms EXCEPT ![Len(atoms)] = [@ EXCEPT !.star = TRUE]])
    ELSE CompileFrom(p, i + 1, Append(atoms, AtomOf(p[i])))

Compile(p) == CompileFrom(p, 1, <<>>)

\* whether an atom that consumes a character takes c
Takes(a, c) == (a.kind = "any" /\ c # "\n") \/ (a.kind = "lit" /\ a.ch = c)

\* how many characters of s from position pos on (0-based) atom a takes
RECURSIVE RunLen(_, _, _)
RunLen(a, s, pos) ==
    IF pos < Len(s) /\ Takes(a, s[pos + 1]) THEN 1 + RunLen(a, s, pos + 1) ELSE 0

\* the end of the match of atoms k.. that starts at pos and that the
\* matcher prefers (a "*" takes as much as it can, then gives back), -1 when
\* there is none
RECURSIVE MatchEnd(_, _, _, _)
RECURSIVE StarEnd(_, _, _, _, _)
MatchEnd(atoms, k, s, pos) ==
    IF k > Len(atoms) THEN pos
    ELSE LET a == atoms[k] IN
         IF a.kind = "bol"
         THEN IF a.star \/ pos = 0 THEN MatchEnd(atoms, k + 1, s, pos) ELSE -1
         ELSE IF a.kind = "eol"
         THEN IF a.star \/ pos = Len(s) THEN MatchEnd(atoms, k + 1, s, pos) ELSE -1
         ELSE IF a.star THEN StarEnd(atoms, k, s, pos, RunLen(a, s, pos))
         ELSE IF pos < Len(s) /\ Takes(a, s[pos + 1])
              THEN MatchEnd(atoms, k + 1, s, pos + 1)
              ELSE -1

StarEnd(atoms, k, s, pos, n) ==
    LET e == MatchEnd(atoms, k + 1, s, pos + n) IN
    IF e # -1 THEN e
    ELSE IF n = 0 THEN -1
    ELSE StarEnd(atoms, k, s, pos, n - 1)

\* re.FindString(s): the text of the leftmost match, the empty string when
\* the pattern matches nowhere
RECURSIVE FindStringFrom(_, _, _)
FindStringFrom(atoms, s, start) ==
    IF start > Len(s) THEN <<>>
    ELSE LET e == MatchEnd(atoms, 1, s, start) IN
         IF e # -1 THEN SubSeq(s, start + 1, e)
         ELSE FindStringFrom(atoms, s, start + 1)

FindString(atoms, s) == FindStringFrom(atoms, s, 0)

\* the variant of the filter that takes every candidate
Survives_all(atoms, name) == TRUE

\* the variant of the filter that compares with ">= 0"
Survives_nonneg(atoms, name) == Len(FindString(atoms, name)) >= 0

\* the filter of the four get...Resources loops: len(re.FindString(name)) > 0
Survives(atoms, name) == Len(FindString(atoms, name)) > 0

(***************************************************************************)
(* The host: what the enumerators and the kernel accounting facility read. *)
(* The host is outside the program; the model moves between the hosts of   *)
(* Hosts at any moment, also in the middle of a Refresh.                   *)
(***************************************************************************)
\* raw accounting strings the kernel hands out
R_full == <<"c", "p", "u", "t", "i", "m", "e", "=", "1", "2", "0", ",", "m", "e", "m", "o", "r", "y", "u", "s", "e", "=", "4", "0", "9", "6">>

R_one == <<"c", "p", "u", "t", "i", "m", "e", "=", "7">>

R_truncated == <<"c", "p", "u", "t", "i", "m", "e", "=", "1", "2", "0", ",", "b", "a", "d", "s", "e", "g", "m", "e", "n", "t", ",", "m", "e", "m", "o", "r", "y", "u", "s", "e", "=", "9", "9">>

R_empty == <<>>

R_twoeq == <<"p", "c", "p", "u", "=", "1", "=", "2">>

R_badnum == <<"n", "t", "h", "r", "=", "a", "b", "c", ",", "w", "a", "l", "l", "c", "l", "o", "c", "k", "=", "6", "0", "0">>

\* accounting enabled, every source readable
HostNormal ==
    [racct |-> TRUE,
     psOK |-> TRUE,
     procs |-> <<[pid |-> 1, ppid |-> 0, exe |-> <<"a">>, cmdline |-> <<"a", "b">>, racct |-> R_full],
                [pid |-> 2, ppid |-> 1, exe |-> <<"b">>, cmdline |-> <<"b", "a">>, racct |-> R_one]>>,
     passwdOK |-> TRUE,
     passwd |-> <<"#", "c", "\n", "a", "b", ":", "*", ":", "1", "\n", "\n", "b", ":", "*", ":", "2", "\n">>,
     uids |-> <<[uid |-> 1, racct |-> R_full], [uid |-> 2, racct |-> R_one]>>,
     jailOK |-> TRUE,
     jails |-> <<[jid |-> 1, name |-> <<"a">>, racct |-> R_full],
                [jid |-> 2, name |-> <<"b", "b">>, racct |-> R_one]>>,
     loginconfOK |-> TRUE,
     loginconf |-> <<"#", "c", "\n", "a", "b", ":", "\\", "\n", "\t", ":", "x", "=", "1", ":", "\\", "\n", "b", "|", "c", ":", "\\", "\n">>,
     classes |-> <<[name |-> <<"a", "b">>, racct |-> R_one], [name |-> <<"b">>, racct |-> R_full]>>]

\* the same host with accounting disabled (kern.racct.enable=0)
HostDisabled == [HostNormal EXCEPT !.racct = FALSE]

\* other entities (some gone, some new, a process with an empty command
\* line) and raw strings that are empty or malformed
HostChanged ==
    [racct |-> TRUE,
     psOK |-> TRUE,
     procs |-> <<[pid |-> 2, ppid |-> 1, exe |-> <<"b">>, cmdline |-> <<"b", "a">>, racct |-> R_truncated],
                [pid |-> 3, ppid |-> 1, exe |-> <<>>, cmdline |-> <<>>, racct |-> R_full]>>,
     passwdOK |-> TRUE,
     passwd |-> <<"b", ":", "*", ":", "2", "\n", "a", ":", "*", ":", "3">>,
     uids |-> <<[uid |-> 2, racct |-> R_twoeq], [uid |-> 3, racct |-> R_empty]>>,
     jailOK |-> TRUE,
     jails |-> <<[jid |-> 2, name |-> <<"b", "b">>, racct |-> R_badnum],
                [jid |-> 3, name |-> <<"a", "b">>, racct |-> R_truncated]>>,
     loginconfOK |-> TRUE,
     loginconf |-> <<"b", ":", "\\", "\n", " ", ":", "y", "=", "2", ":", "\\", "\n", "a", ":", "\\">>,
     classes |-> <<[name |-> <<"b">>, racct |-> R_truncated], [name |-> <<"a">>, racct |-> R_empty]>>]

\* no source can be read: process table, account database, jail interface,
\* login-class file
HostUnreadable ==
    [HostNormal EXCEPT !.psOK = FALSE, !.passwdOK = FALSE, !.jailOK = FALSE,
                       !.loginconfOK = FALSE]

\* an account database with a line of fewer than three fields
HostShortLine ==
    [HostNormal EXCEPT !.passwd = <<"a", "b", ":", "*", ":", "1", "\n", "b">>]

Hosts == <<HostNormal, HostDisabled, HostChanged, HostUnreadable, HostShortLine>>

(***************************************************************************)
(* The rule lists the program may be started with (the pieces of the       *)
(* rctl.filter argument cut at its commas).                                *)
(***************************************************************************)
RuleLists ==
    {<<<<"p", "r", "o", "c", "e", "s", "s", ":", "a">>>>,
     <<<<"u", "s", "e", "r", ":", ".", "*">>, <<"j", "a", "i", "l", ":", "a", "*">>>>,
     <<<<"p", "r", "o", "c", "e", "s", "s", ":", ".", "*">>, <<"u", "s", "e", "r", ":", "^", "b">>, <<"l", "o", "g", "i", "n", "c", "l", "a", "s", "s", ":", "b">>>>,
     <<<<"j", "a", "i", "l", ":", "a">>, <<"l", "o", "g", "i", "n", "c", "l", "a", "s", "s", ":", ".", "*">>>>,
     <<<<"u", "s", "e", "r", ":", "a">>, <<"u", "s", "e", "r", ":", ".", "*">>>>,
     <<<<"p", "r", "o", "c", "e", "s", "s", ":", "a">>, <<"u", "s", "e", "r", ":", "(", "a">>>>,
     <<<<"c", "o", "n", "t", "a", "i", "n", "e", "r", ":", "a">>, <<"u", "s", "e", "r", ":", "b", "$">>>>,
     <<<<"u", "s", "e", "r", ":", "a">>, <<"b">>>>,
     <<<<"u", "s", "e", "r", ":", "c">>, <<"j", "a", "i", "l", ":", "b">>>>}

(***************************************************************************)
(* The enumerators.  Each gives [kind, list]: kind is "ok", "err" (an      *)
(* error is returned) or "panic" (the goroutine panics).  A candidate is   *)
(* [name, num, ppid, exe]: the name the filter reads and the numeric       *)
(* identifier (pid, uid, jid; 0 for a login class).                        *)
(***************************************************************************)
Cand(name, num, ppid, exe) == [name |-> name, num |-> num, ppid |-> ppid, exe |-> exe]

\* ps.Processes(): the process table
RECURSIVE ProcCands(_)
ProcCands(ps) ==
    IF ps = <<>> THEN <<>>
    ELSE <<Cand(Head(ps).cmdline, Head(ps).pid, Head(ps).ppid, Head(ps).exe)>>
             \o ProcCands(Tail(ps))

Processes(h) ==
    IF h.psOK THEN [kind |-> "ok", list |-> ProcCands(h.procs)]
    ELSE [kind |-> "err", list |-> <<>>]

\* the loop of getUsersFromPasswd over the lines of /etc/passwd: a line
\* that is not empty and does not start with "#" gives a user from its
\* fields 0 and 2; s[2] of a line with fewer than three fields panics
RECURSIVE PasswdLines(_, _, _)
PasswdLines(lines, i, usrs) ==
    IF i > Len(lines) THEN [kind |-> "ok", list |-> usrs]
    ELSE LET line == lines[i]
             s == Split(line, ":")
         IN  IF Len(line) > 0 /\ ~HasPrefix(line, "#")
             THEN IF Len(s) < 3 THEN [kind |-> "panic", list |-> <<>>]
                  ELSE PasswdLines(lines, i + 1,
                                   Append(usrs, Cand(s[1], Atoi(s[3]).val, 0, <<>>)))
             ELSE PasswdLines(lines, i + 1, usrs)

\* the variant of getUsersFromPasswd that takes a file it cannot read for
\* an empty one
getUsersFromPasswd_ignoreError(h) ==
    IF ~h.passwdOK THEN [kind |-> "ok", list |-> <<>>]
    ELSE PasswdLines(Split(h.passwd, "\n"), 1, <<>>)

getUsersFromPasswd(h) ==
    IF ~h.passwdOK THEN [kind |-> "err", list |-> <<>>]
    ELSE PasswdLines(Split(h.passwd, "\n"), 1, <<>>)

\* jailparam_get(&params[0], 3, 0) with the key lastjid: the jid of the
\* first jail after lastjid, with its name and jid exported; -1 when there
\* is no jail after it, and when the call fails
JailparamGet(js, ok, lastjid) ==
    LET later == {i \in 1..Len(js) : js[i].jid > lastjid} IN
    IF ~ok \/ later = {} THEN [ret |-> -1, name |-> <<>>, jid |-> <<>>]
    ELSE LET n == CHOOSE i \in later : \A j \in later : js[i].jid <= js[j].jid
         IN  [ret |-> js[n].jid, name |-> js[n].name, jid |-> Itoa(js[n].jid)]

\* the variant of the loop of getJails that moves the cursor one past the
\* jid it got
RECURSIVE JailLoop_onePast(_, _, _, _)
JailLoop_onePast(js, ok, lastjailid, jls) ==
    IF lastjailid < 0 THEN jls
    ELSE LET got == JailparamGet(js, ok, lastjailid) IN
         IF got.ret > 0
         THEN JailLoop_onePast(js, ok, got.ret + 1,
                               Append(jls, Cand(got.name, Atoi(got.jid).val, 0, <<>>)))
         ELSE JailLoop_onePast(js, ok, got.ret, jls)

\* the loop of getJails, "for lastjailid >= 0": a positive value of
\* jailparam_get gives a jail (jl.jid is read back from the exported text)
\* and becomes the cursor; a negative one ends the loop
RECURSIVE JailLoop(_, _, _, _)
JailLoop(js, ok, lastjailid, jls) ==
    IF lastjailid < 0 THEN jls
    ELSE LET got == JailparamGet(js, ok, lastjailid) IN
         IF got.ret > 0
         THEN JailLoop(js, ok, got.ret,
                       Append(jls, Cand(got.name, Atoi(got.jid).val, 0, <<>>)))
         ELSE JailLoop(js, ok, got.ret, jls)

\* getJails: the cursor starts at 0; the loop ends in the same way whether
\* jailparam_get says "no more jail" or reports a failure, and the error
\* returned is always nil
getJails(h) == [kind |-> "ok", list |-> JailLoop(h.jails, h.jailOK, 0, <<>>)]

\* the loop of getLoginClasses over the lines of /etc/login.conf: a line
\* that is not empty and starts neither with "#" nor with a space gives a
\* class when it has exactly two colon-delimited fields; the class is the
\* part of field 0 before the first "|"
RECURSIVE LoginConfLines(_, _, _)
LoginConfLines(lines, i, lcs) ==
    IF i > Len(lines) THEN [kind |-> "ok", list |-> lcs]
    ELSE LET line == lines[i]
             s == Split(line, ":")
         IN  IF Len(line) > 0 /\ ~HasPrefix(line, "#") /\ ~HasPrefix(line, " ") /\ Len(s) = 2
             THEN LoginConfLines(lines, i + 1,
                                 Append(lcs, Cand(Split(s[1], "|")[1], 0, 0, <<>>)))
             ELSE LoginConfLines(lines, i + 1, lcs)

getLoginClasses(h) ==
    IF ~h.loginconfOK THEN [kind |-> "err", list |-> <<>>]
    ELSE LoginConfLines(Split(h.loginconf, "\n"), 1, <<>>)

(***************************************************************************)
(* The kernel query.                                                       *)
(***************************************************************************)
\* what the kernel has for the entity a rule names ("subject:id" then
\* anything), <<>> when it has none: <<raw>> is a one-element sequence
RECURSIVE FindProc(_, _)
FindProc(ps, id) ==
    IF ps = <<>> THEN <<>>
    ELSE IF Itoa(Head(ps).pid) = id THEN <<Head(ps).racct>>
    ELSE FindProc(Tail(ps), id)

RECURSIVE FindUid(_, _)
FindUid(us, id) ==
    IF us = <<>> THEN <<>>
    ELSE IF Itoa(Head(us).uid) = id THEN <<Head(us).racct>>
    ELSE FindUid(Tail(us), id)

RECURSIVE FindNamed(_, _)
FindNamed(xs, id) ==
    IF xs = <<>> THEN <<>>
    ELSE IF Head(xs).name = id THEN <<Head(xs).racct>>
    ELSE FindNamed(Tail(xs), id)

KernelUsage(h, rule) ==
    LET f == Split(rule, ":") IN
    IF Len(f) < 2 THEN <<>>
    ELSE IF f[1] = S_process THEN FindProc(h.procs, f[2])
    ELSE IF f[1] = S_user THEN FindUid(h.uids, f[2])
    ELSE IF f[1] = S_jail THEN FindNamed(h.jails, f[2])
    ELSE IF f[1] = S_loginclass THEN FindNamed(h.classes, f[2])
    ELSE <<>>

\* the outcomes of the rctl_get_racct system call for a rule: an errno
\* (always possible; the only outcome when accounting is disabled or the
\* entity is unknown), or the output buffer, zero-filled after the string
NUL == "\\0"

SyscallOutcomes(h, rule) ==
    {[errno |-> TRUE, out |-> <<>>]} \cup
    (IF h.racct /\ KernelUsage(h, rule) # <<>>
     THEN {[errno |-> FALSE, out |-> KernelUsage(h, rule)[1] \o <<NUL>>]}
     ELSE {})

\* the loop of rctlGetRacct over the output buffer, "for i, _ = range _out":
\* from index i on (counted from 0), it stops at the first zero byte, or
\* at the last index when there is none before it; the result is _out[0:i]
FirstNulOrLast(out, i) ==
    LET zeros == {j \in i..(Len(out) - 2) : out[j + 1] = NUL} IN
    IF zeros = {} THEN Len(out) - 1
    ELSE CHOOSE j \in zeros : \A k \in zeros : j <= k

\* rctlGetRacct: [err, buf] from an outcome of the system call
rctlGetRacct(outcome) ==
    IF outcome.errno THEN [err |-> TRUE, buf |-> outcome.out]
    ELSE [err |-> FALSE, buf |-> SubSeq(outcome.out, 1, FirstNulOrLast(outcome.out, 0))]

\* checkSubject: [err, subject]
checkSubject(rule) ==
    LET s == Split(rule, ":") IN
    IF \E i \in 1..Len(SUPPORTED_SUBJECTS) : SUPPORTED_SUBJECTS[i] = s[1]
    THEN [err |-> FALSE, subject |-> s[1]]
    ELSE [err |-> TRUE, subject |-> <<>>]

\* the variant of getResourceUsage that takes a failed query for an empty
\* answer
getResourceUsage_swallow(rule, outcome) ==
    LET cs == checkSubject(rule)
        k  == rctlGetRacct(outcome)
    IN  IF cs.err THEN [err |-> TRUE, called |-> FALSE, r |-> ZeroResource]
        ELSE IF k.err THEN [err |-> FALSE, called |-> TRUE, r |-> parseResource(cs.subject, <<>>)]
        ELSE [err |-> FALSE, called |-> TRUE, r |-> parseResource(cs.subject, k.buf)]

\* getResourceUsage: [err, called, r]; called tells whether the system call
\* was issued
getResourceUsage(rule, outcome) ==
    LET cs == checkSubject(rule)
        k  == rctlGetRacct(outcome)
    IN  IF cs.err THEN [err |-> TRUE, called |-> FALSE, r |-> ZeroResource]
        ELSE IF k.err THEN [err |-> TRUE, called |-> TRUE, r |-> ZeroResource]
        ELSE [err |-> FALSE, called |-> TRUE, r |-> parseResource(cs.subject, k.buf)]

(***************************************************************************)
(* The collector: the series one scrape cycle sends.                       *)
(***************************************************************************)
MetricPrefix == <<"r", "c", "t", "l", "_", "u", "s", "a", "g", "e", "_">>

\* strconv.ParseFloat succeeds, for a text made of digits, signs and
\* letters other than those of the exponent, hexadecimal, infinity and
\* not-a-number notations: an optional sign and one digit or more
ParseFloatOk(s) ==
    LET body == IF Len(s) > 0 /\ s[1] \in {"+", "-"} THEN Tail(s) ELSE s IN
    Len(body) > 0 /\ \A i \in 1..Len(body) : IsDigit(body[i])

SubjectOfType(ty) ==
    IF ty = RESRC_PROCESS THEN S_process
    ELSE IF ty = RESRC_USER THEN S_user
    ELSE IF ty = RESRC_JAIL THEN S_jail
    ELSE S_loginclass

\* the label values of a record's series
LabelsOf(r) ==
    IF r.ResourceType = RESRC_PROCESS THEN <<r.ResourceID, r.ProcessName, r.ProcessCmdLine>>
    ELSE IF r.ResourceType = RESRC_USER THEN <<r.ResourceID, r.UserName>>
    ELSE IF r.ResourceType = RESRC_JAIL THEN <<r.ResourceID, r.JailName>>
    ELSE <<r.LoginClassName>>

\* the loop over the segments of one record's RawResources: a series per
\* segment key=value (its value is the number the text stands for, 0 for
\* an empty text); a segment with no "=" or a value that is no number
\* returns an error, after the series already sent
RECURSIVE EmitSegments(_, _, _, _)
EmitSegments(r, rawresrc, i, sent) ==
    IF i > Len(rawresrc) THEN [err |-> FALSE, sent |-> sent]
    ELSE LET s == SplitN2(rawresrc[i], "=") IN
         IF Len(s) # 2 THEN [err |-> TRUE, sent |-> sent]
         ELSE LET name == MetricPrefix \o SubjectOfType(r.ResourceType) \o <<"_">> \o s[1] IN
              IF Len(s[2]) > 0 /\ s[2] # <<"0">>
              THEN IF ParseFloatOk(s[2])
                   THEN EmitSegments(r, rawresrc, i + 1,
                            Append(sent, [name |-> name, labels |-> LabelsOf(r), value |-> s[2]]))
                   ELSE [err |-> TRUE, sent |-> sent]
              ELSE EmitSegments(r, rawresrc, i + 1,
                       Append(sent, [name |-> name, labels |-> LabelsOf(r), value |-> <<"0">>]))

\* the loop of collectFromResourceStruct over the snapshot
RECURSIVE EmitResources(_, _, _)
EmitResources(resources, k, sent) ==
    IF k > Len(resources) THEN [err |-> FALSE, sent |-> sent]
    ELSE IF resources[k].ResourceType \in
                {RESRC_PROCESS, RESRC_USER, RESRC_JAIL, RESRC_LOGINCLASS}
         THEN LET e == EmitSegments(resources[k], Split(resources[k].RawResources, ","), 1, sent)
              IN  IF e.err THEN e ELSE EmitResources(resources, k + 1, e.sent)
         ELSE EmitResources(resources, k + 1, sent)

\* Collect: the value of rctl_up from the error collectFromResourceStruct
\* returned
UpValue(err) == IF err THEN 0 ELSE 1

(***************************************************************************)
(* The program.                                                            *)
(***************************************************************************)
\* the variables of the parser on its own (see ParseSpec)
VARIABLES
    segs,       \* the descriptions of the segments of the raw string
    resrc,      \* the raw string handed to parseResource
    psubject,   \* the subject handed to parseResource
    parsed,     \* the Resource it returned
    ppc         \* "input" before the call, "done" after it

parseVars == <<segs, resrc, psubject, parsed, ppc>>

\* the variables of the file enumerators on their own (see FileSpec)
VARIABLES
    fkind,      \* "passwd" or "loginconf": the file that is read
    flines,     \* the descriptions of the lines of the file
    fdata,      \* the content of the file
    fout,       \* what the enumerator returned: [kind, list]
    fpc         \* "input" before the call, "done" after it

fileVars == <<fkind, flines, fdata, fout, fpc>>

FilesOff ==
    /\ fkind = "off"
    /\ flines = <<>>
    /\ fdata = <<>>
    /\ fout = [kind |-> "none", list |-> <<>>]
    /\ fpc = "off"

\* the variables of the jail enumerator on its own (see JailSpec)
VARIABLES
    jailtab,    \* the jails of the host: for every jid a name, or "none"
    jout,       \* what getJails returned: [kind, list]
    jpc         \* "input" before the call, "done" after it

jailVars == <<jailtab, jout, jpc>>

JailsOff ==
    /\ jailtab = <<>>
    /\ jout = [kind |-> "none", list |-> <<>>]
    /\ jpc = "off"

\* the variables of the kernel query on its own (see RacctSpec)
VARIABLES
    outbuf,     \* _out after the system call
    racctret,   \* what rctlGetRacct returned: [err, buf]
    rpc         \* "input" before the call, "done" after it

racctVars == <<outbuf, racctret, rpc>>

RacctOff ==
    /\ outbuf = <<>>
    /\ racctret = [err |-> FALSE, buf |-> <<>>]
    /\ rpc = "off"

\* the goroutine of main and the goroutines that serve scrapes
Threads == {"main", "s1", "s2"}

VARIABLES
    resrcesfilter,  \* ResourceMgr.resrcesfilter: the rule list
    Resources,      \* ResourceMgr.Resources: the snapshot
    host,           \* the index in Hosts of the host as it is now
    process,        \* "running", "exited" (log.Fatal), "crashed" (panic in main)
    pc,             \* per goroutine: where it is
    ri,             \* per goroutine: Refresh, index of the rule at hand
    cands,          \* per goroutine: the candidates of the rule at hand
    ci,             \* per goroutine: index of the candidate at hand
    res,            \* per goroutine: the records of the rule at hand
    results,        \* per goroutine: Refresh's results
    rerr,           \* per goroutine: what the last Refresh returned
    up,             \* per goroutine: the rctl_up sample of the cycle, -1 before it
    metrics,        \* per goroutine: the series sent by the cycle
    prev,           \* history: the snapshot when the Refresh began
    enums,          \* history: the enumeration of every rule of the Refresh
    origin,         \* history: for every record built, the index of its rule
    queries,        \* history: the rules handed to the kernel by the Refresh
    kfailed,        \* history: whether a kernel query of the Refresh failed
    qrule,          \* history: for every rule handed to the kernel, the index of
                    \* the configured rule it was built for
    lastGood,       \* history: the snapshot the last successful Refresh committed
    newerr,         \* what NewResourceManager returned to main, "none" before
    collects,       \* number of scrape cycles begun
    hostChanges     \* number of changes of the host

mainVars ==
    <<resrcesfilter, Resources, host, process, pc, ri, cands, ci, res, results, rerr,
      up, metrics, prev, enums, origin, queries, kfailed, qrule, lastGood, newerr,
      collects, hostChanges>>

vars == <<mainVars, parseVars, fileVars, jailVars, racctVars>>

\* s := strings.SplitN(resrcFilter, ":", 2)
RuleParts(rule) == SplitN2(rule, ":")

\* the query string of a candidate: fmt.Sprintf("%s:%d:", ...) for a
\* process and a user, fmt.Sprintf("%s:%s", ...) for a jail and a class
QueryOf(subject, c) ==
    IF subject \in {S_process, S_user}
    THEN subject \o <<":">> \o Itoa(c.num) \o <<":">>
    ELSE subject \o <<":">> \o c.name

\* the identity the loop of a subject attaches to the parsed record
Attach(subject, c, r) ==
    IF subject = S_process
    THEN [r EXCEPT !.ResourceID = Itoa(c.num), !.ProcessPPid = c.ppid,
                   !.ProcessName = c.exe, !.ProcessCmdLine = c.name]
    ELSE IF subject = S_user
    THEN [r EXCEPT !.ResourceID = Itoa(c.num), !.UserName = c.name]
    ELSE IF subject = S_jail
    THEN [r EXCEPT !.ResourceID = Itoa(c.num), !.JailName = c.name]
    ELSE [r EXCEPT !.LoginClassName = c.name]

\* the enumerator of a subject
Enumerate(subject, h) ==
    IF subject = S_process THEN Processes(h)
    ELSE IF subject = S_user THEN getUsersFromPasswd(h)
    ELSE IF subject = S_jail THEN getJails(h)
    ELSE getLoginClasses(h)

\* the variant of the error return of Refresh that clears the snapshot
SnapshotOnError_cleared(old, built) == <<>>

\* the variant of the error return of Refresh that leaves the records built
\* so far in the snapshot
SnapshotOnError_partial(old, built) == built

\* the snapshot a Refresh leaves when it returns an error: r.Resources is
\* not assigned
SnapshotOnError(old, built) == old

\* the variant of the last assignment of Refresh that adds to the snapshot
SnapshotOnSuccess_append(old, built) == old \o built

\* r.Resources = results
SnapshotOnSuccess(old, built) == built

Init ==
    /\ resrcesfilter \in RuleLists
    /\ Resources = <<>>
    /\ host \in 1..Len(Hosts)
    /\ process = "running"
    /\ pc = [t \in Threads |-> IF t = "main" THEN "start" ELSE "idle"]
    /\ ri = [t \in Threads |-> 0]
    /\ cands = [t \in Threads |-> <<>>]
    /\ ci = [t \in Threads |-> 0]
    /\ res = [t \in Threads |-> <<>>]
    /\ results = [t \in Threads |-> <<>>]
    /\ rerr = [t \in Threads |-> "none"]
    /\ up = [t \in Threads |-> -1]
    /\ metrics = [t \in Threads |-> <<>>]
    /\ prev = [t \in Threads |-> <<>>]
    /\ enums = [t \in Threads |-> <<>>]
    /\ origin = [t \in Threads |-> <<>>]
    /\ queries = [t \in Threads |-> <<>>]
    /\ kfailed = [t \in Threads |-> FALSE]
    /\ qrule = [t \in Threads |-> <<>>]
    /\ lastGood = <<>>
    /\ newerr = "none"
    /\ collects = 0
    /\ hostChanges = 0
    /\ segs = <<>>
    /\ resrc = <<>>
    /\ psubject = <<>>
    /\ parsed = ZeroResource
    /\ ppc = "off"
    /\ fkind = "off"
    /\ flines = <<>>
    /\ fdata = <<>>
    /\ fout = [kind |-> "none", list |-> <<>>]
    /\ fpc = "off"
    /\ JailsOff
    /\ RacctOff

\* the first statements of Refresh: var results []Resource
BeginRefresh(t) ==
    /\ ri' = [ri EXCEPT ![t] = 1]
    /\ cands' = [cands EXCEPT ![t] = <<>>]
    /\ ci' = [ci EXCEPT ![t] = 0]
    /\ res' = [res EXCEPT ![t] = <<>>]
    /\ results' = [results EXCEPT ![t] = <<>>]
    /\ rerr' = [rerr EXCEPT ![t] = "none"]
    /\ prev' = [prev EXCEPT ![t] = Resources]
    /\ enums' = [enums EXCEPT ![t] = <<>>]
    /\ origin' = [origin EXCEPT ![t] = <<>>]
    /\ queries' = [queries EXCEPT ![t] = <<>>]
    /\ kfailed' = [kfailed EXCEPT ![t] = FALSE]
    /\ qrule' = [qrule EXCEPT ![t] = <<>>]

\* main calls rctl.NewResourceManager, which calls resmgr.Refresh()
NewResourceManager ==
    /\ process = "running"
    /\ pc["main"] = "start"
    /\ pc' = [pc EXCEPT !["main"] = "rule"]
    /\ BeginRefresh("main")
    /\ UNCHANGED <<resrcesfilter, Resources, host, process, up, metrics, collects,
                   hostChanges, lastGood, newerr, parseVars, fileVars, jailVars, racctVars>>

\* a scrape begins, the max-th at most: Collect calls
\* collectFromResourceStruct, which calls c.resmgr.Refresh()
CollectBeginUpTo(t, max) ==
    /\ process = "running"
    /\ pc["main"] = "serving"
    /\ pc[t] = "idle"
    /\ collects < max
    /\ collects' = collects + 1
    /\ pc' = [pc EXCEPT ![t] = "rule"]
    /\ up' = [up EXCEPT ![t] = -1]
    /\ metrics' = [metrics EXCEPT ![t] = <<>>]
    /\ BeginRefresh(t)
    /\ UNCHANGED <<resrcesfilter, Resources, host, process, hostChanges, lastGood,
                   newerr, parseVars, fileVars, jailVars, racctVars>>

CollectBegin(t) == CollectBeginUpTo(t, MaxCollects)

\* Refresh leaves with a panic (in main the program crashes, in a scrape
\* the HTTP server recovers) or the program exits in log.Fatal
Abort(t, how) ==
    /\ pc' = [pc EXCEPT ![t] = IF how = "panic" THEN "panicked" ELSE "exited"]
    /\ process' = IF how = "fatal" THEN "exited"
                  ELSE IF t = "main" THEN "crashed" ELSE process
    /\ UNCHANGED <<ri, cands, ci, res, enums, rerr>>

\* Refresh returns an error
ReturnError(t) ==
    /\ pc' = [pc EXCEPT ![t] = "returned"]
    /\ rerr' = [rerr EXCEPT ![t] = "err"]
    /\ Resources' = SnapshotOnError(Resources, results[t] \o res[t])

\* one turn of the loop of Refresh over the rules, up to the loop over the
\* candidates: the rule is split, the subject chosen, the pattern compiled
\* and the candidates enumerated (the pattern first for a process, the
\* candidates first for the other subjects)
RefreshRule(t) ==
    /\ process = "running"
    /\ pc[t] = "rule"
    /\ ri[t] <= Len(resrcesfilter)
    /\ LET s       == RuleParts(resrcesfilter[ri[t]])
           subject == s[1]
           re      == Compile(s[2])
           e       == Enumerate(subject, Hosts[host])
       IN  IF Len(s) < 2
           THEN Abort(t, "panic") /\ UNCHANGED Resources
           ELSE IF subject \notin {S_process, S_user, S_loginclass, S_jail}
           THEN /\ ri' = [ri EXCEPT ![t] = @ + 1]
                /\ enums' = [enums EXCEPT ![t] = Append(@, <<>>)]
                /\ UNCHANGED <<Resources, process, pc, cands, ci, res, rerr>>
           ELSE IF subject = S_process /\ ~re.ok
           THEN Abort(t, "fatal") /\ UNCHANGED Resources
           ELSE IF e.kind = "panic"
           THEN Abort(t, "panic") /\ UNCHANGED Resources
           ELSE IF e.kind = "err"
           THEN IF subject = S_process
                THEN Abort(t, "fatal") /\ UNCHANGED Resources
                ELSE /\ ReturnError(t)
                     /\ UNCHANGED <<process, ri, cands, ci, res, enums>>
           ELSE IF ~re.ok
           THEN Abort(t, "fatal") /\ UNCHANGED Resources
           ELSE /\ cands' = [cands EXCEPT ![t] = e.list]
                /\ ci' = [ci EXCEPT ![t] = 1]
                /\ res' = [res EXCEPT ![t] = <<>>]
                /\ pc' = [pc EXCEPT ![t] = "cand"]
                /\ enums' = [enums EXCEPT ![t] = Append(@, e.list)]
                /\ UNCHANGED <<Resources, process, ri, rerr>>
    /\ UNCHANGED <<resrcesfilter, host, results, up, metrics, prev, origin, queries,
                   kfailed, qrule, lastGood, newerr, collects, hostChanges, parseVars, fileVars, jailVars, racctVars>>

\* one turn of the loop over the candidates: a candidate that survives the
\* filter is queried, and its record appended or the error returned
RefreshCandidate(t) ==
    /\ process = "running"
    /\ pc[t] = "cand"
    /\ ci[t] <= Len(cands[t])
    /\ LET s       == RuleParts(resrcesfilter[ri[t]])
           subject == s[1]
           c       == cands[t][ci[t]]
           rule    == QueryOf(subject, c)
       IN  IF ~Survives(Compile(s[2]).atoms, c.name)
           THEN /\ ci' = [ci EXCEPT ![t] = @ + 1]
                /\ UNCHANGED <<Resources, pc, res, rerr, origin, queries, kfailed, qrule>>
           ELSE \E outcome \in SyscallOutcomes(Hosts[host], rule) :
                   LET u == getResourceUsage(rule, outcome) IN
                   /\ queries' = [queries EXCEPT ![t] =
                                      IF u.called THEN Append(@, rule) ELSE @]
                   /\ qrule' = [qrule EXCEPT ![t] =
                                    IF u.called THEN Append(@, ri[t]) ELSE @]
                   /\ kfailed' = [kfailed EXCEPT ![t] = @ \/ (u.called /\ outcome.errno)]
                   /\ IF u.err
                      THEN /\ ReturnError(t)
                           /\ UNCHANGED <<ci, res, origin>>
                      ELSE /\ res' = [res EXCEPT ![t] = Append(@, Attach(subject, c, u.r))]
                           /\ origin' = [origin EXCEPT ![t] = Append(@, ri[t])]
                           /\ ci' = [ci EXCEPT ![t] = @ + 1]
                           /\ UNCHANGED <<Resources, pc, rerr>>
    /\ UNCHANGED <<resrcesfilter, host, process, ri, cands, results, up, metrics, prev,
                   enums, lastGood, newerr, collects, hostChanges, parseVars, fileVars, jailVars, racctVars>>

\* the loop over the candidates ends: results = append(results, res...)
RefreshRuleDone(t) ==
    /\ process = "running"
    /\ pc[t] = "cand"
    /\ ci[t] > Len(cands[t])
    /\ results' = [results EXCEPT ![t] = @ \o res[t]]
    /\ res' = [res EXCEPT ![t] = <<>>]
    /\ ri' = [ri EXCEPT ![t] = @ + 1]
    /\ pc' = [pc EXCEPT ![t] = "rule"]
    /\ UNCHANGED <<resrcesfilter, Resources, host, process, cands, ci, rerr, up, metrics,
                   prev, enums, origin, queries, kfailed, qrule, lastGood, newerr,
                   collects, hostChanges, parseVars, fileVars, jailVars, racctVars>>

\* the loop over the rules ends: r.Resources = results; return r, err
RefreshCommit(t) ==
    /\ process = "running"
    /\ pc[t] = "rule"
    /\ ri[t] > Len(resrcesfilter)
    /\ Resources' = SnapshotOnSuccess(Resources, results[t])
    /\ lastGood' = Resources'
    /\ rerr' = [rerr EXCEPT ![t] = "nil"]
    /\ pc' = [pc EXCEPT ![t] = "returned"]
    /\ UNCHANGED <<resrcesfilter, host, process, ri, cands, ci, res, results, up, metrics,
                   prev, enums, origin, queries, kfailed, qrule, newerr, collects,
                   hostChanges, parseVars, fileVars, jailVars, racctVars>>

\* the error NewResourceManager returns after resmgr.Refresh() returned
\* refreshed: "return resmgr, nil"
NewResourceManagerReturns(refreshed) == "nil"

\* NewResourceManager returns (resmgr, nil) whatever Refresh returned; main
\* logs an error that is not nil, builds the collector and serves
MainServe ==
    /\ process = "running"
    /\ pc["main"] = "returned"
    /\ pc' = [pc EXCEPT !["main"] = "serving"]
    /\ newerr' = NewResourceManagerReturns(rerr["main"])
    /\ UNCHANGED <<resrcesfilter, Resources, host, process, ri, cands, ci, res, results,
                   rerr, up, metrics, prev, enums, origin, queries, kfailed, qrule,
                   lastGood, collects, hostChanges, parseVars, fileVars, jailVars, racctVars>>

\* the rest of the scrape: the value Refresh returned is dropped, the
\* series of the snapshot are sent, then rctl_up
CollectEmit(t) ==
    /\ process = "running"
    /\ t # "main"
    /\ pc[t] = "returned"
    /\ LET e == EmitResources(Resources, 1, <<>>) IN
       /\ metrics' = [metrics EXCEPT ![t] = e.sent]
       /\ up' = [up EXCEPT ![t] = UpValue(e.err)]
    /\ pc' = [pc EXCEPT ![t] = "idle"]
    /\ UNCHANGED <<resrcesfilter, Resources, host, process, ri, cands, ci, res, results,
                   rerr, prev, enums, origin, queries, kfailed, qrule, lastGood, newerr,
                   collects, hostChanges, parseVars, fileVars, jailVars, racctVars>>

\* the host changes: entities come and go, accounting is switched, a file
\* becomes unreadable
HostChange ==
    /\ process = "running"
    /\ hostChanges < MaxHostChanges
    /\ hostChanges' = hostChanges + 1
    /\ \E h \in 1..Len(Hosts) : h # host /\ host' = h
    /\ UNCHANGED <<resrcesfilter, Resources, process, pc, ri, cands, ci, res, results,
                   rerr, up, metrics, prev, enums, origin, queries, kfailed, qrule,
                   lastGood, newerr, collects, parseVars, fileVars, jailVars, racctVars>>

\* one goroutine serves the scrapes
Scrapers == {"s1"}

Next ==
    \/ NewResourceManager
    \/ MainServe
    \/ HostChange
    \/ \E t \in {"main"} \cup Scrapers : RefreshRule(t)
    \/ \E t \in {"main"} \cup Scrapers : RefreshCandidate(t)
    \/ \E t \in {"main"} \cup Scrapers : RefreshRuleDone(t)
    \/ \E t \in {"main"} \cup Scrapers : RefreshCommit(t)
    \/ \E t \in Scrapers : CollectBegin(t)
    \/ \E t \in Scrapers : CollectEmit(t)

Spec == Init /\ [][Next]_vars

(***************************************************************************)
(* Two scrapes at once.  The HTTP server runs every request in a goroutine *)
(* of its own and the collector takes no lock: the Refresh and the read of *)
(* the snapshot of one scrape interleave with those of another.  The       *)
(* assignment and the read of r.Resources move a slice header of three     *)
(* words, not atomically: when they overlap, the header read or left       *)
(* behind may have the array of one list and the length of the other.      *)
(***************************************************************************)
\* the scrapes of a run with two goroutines
MaxConcCollects == 2

ConcScrapers == {"s1", "s2"}

ConcCollectBegin(t) == CollectBeginUpTo(t, MaxConcCollects)

Min(a, b) == IF a <= b THEN a ELSE b

\* the lists a header mixed from those of a and b gives, where the length
\* is within the array: the array of one with the length of the shorter
TornHeaders(a, b) ==
    {SubSeq(a, 1, Min(Len(a), Len(b))), SubSeq(b, 1, Min(Len(a), Len(b)))}

\* the goroutine u assigns r.Resources while t reads it for its series: t
\* walks the old list, the new one or a mixed header; a mixed header whose
\* length is beyond its array makes the walk read foreign memory, which
\* the model takes as the fault that ends the program
TornEmit(t, u) ==
    /\ process = "running"
    /\ t # u
    /\ pc[t] = "returned"
    /\ pc[u] = "rule"
    /\ ri[u] > Len(resrcesfilter)
    /\ Resources' = SnapshotOnSuccess(Resources, results[u])
    /\ lastGood' = Resources'
    /\ rerr' = [rerr EXCEPT ![u] = "nil"]
    /\ \/ \E seen \in {Resources, Resources'} \cup TornHeaders(Resources, Resources') :
             LET e == EmitResources(seen, 1, <<>>) IN
             /\ metrics' = [metrics EXCEPT ![t] = e.sent]
             /\ up' = [up EXCEPT ![t] = UpValue(e.err)]
             /\ pc' = [pc EXCEPT ![t] = "idle", ![u] = "returned"]
             /\ UNCHANGED process
       \/ /\ Len(Resources) # Len(Resources')
          /\ process' = "crashed"
          /\ pc' = [pc EXCEPT ![t] = "panicked", ![u] = "returned"]
          /\ UNCHANGED <<metrics, up>>
    /\ UNCHANGED <<resrcesfilter, host, ri, cands, ci, res, results, prev, enums, origin,
                   queries, kfailed, qrule, newerr, collects, hostChanges, parseVars,
                   fileVars, jailVars, racctVars>>

\* the goroutines t and u assign r.Resources at once: the header left
\* behind is that of one of the two lists or a mixed one
RacingCommits(t, u) ==
    /\ process = "running"
    /\ t # u
    /\ pc[t] = "rule" /\ ri[t] > Len(resrcesfilter)
    /\ pc[u] = "rule" /\ ri[u] > Len(resrcesfilter)
    /\ Resources' \in {results[t], results[u]} \cup TornHeaders(results[t], results[u])
    /\ lastGood' = Resources'
    /\ rerr' = [rerr EXCEPT ![t] = "nil", ![u] = "nil"]
    /\ pc' = [pc EXCEPT ![t] = "returned", ![u] = "returned"]
    /\ UNCHANGED <<resrcesfilter, host, process, ri, cands, ci, res, results, up, metrics,
                   prev, enums, origin, queries, kfailed, qrule, newerr, collects,
                   hostChanges, parseVars, fileVars, jailVars, racctVars>>

ConcNext ==
    \/ NewResourceManager
    \/ MainServe
    \/ HostChange
    \/ \E t \in {"main"} \cup ConcScrapers : RefreshRule(t)
    \/ \E t \in {"main"} \cup ConcScrapers : RefreshCandidate(t)
    \/ \E t \in {"main"} \cup ConcScrapers : RefreshRuleDone(t)
    \/ \E t \in {"main"} \cup ConcScrapers : RefreshCommit(t)
    \/ \E t \in ConcScrapers : ConcCollectBegin(t)
    \/ \E t \in ConcScrapers : CollectEmit(t)
    \/ \E t, u \in ConcScrapers : TornEmit(t, u)
    \/ \E t, u \in ConcScrapers : RacingCommits(t, u)

\* the rule lists of the runs with two scrapes at once: one rule, and two
\* rules of which the host's changes alter the number of subjects kept
ConcRuleLists ==
    {<<<<"p", "r", "o", "c", "e", "s", "s", ":", "a">>>>,
     <<<<"u", "s", "e", "r", ":", ".", "*">>, <<"j", "a", "i", "l", ":", "a", "*">>>>}

ConcInit == Init /\ resrcesfilter \in ConcRuleLists

ConcSpec == ConcInit /\ [][ConcNext]_vars

(***************************************************************************)
(* Claims about Refresh and Collect (checked under Spec).                  *)
(***************************************************************************)
\* the positions where a match of atoms k.. that starts at pos may end:
\* what "the pattern matches here" means, with no order of preference
RECURSIVE MatchEnds(_, _, _, _)
MatchEnds(atoms, k, s, pos) ==
    IF k > Len(atoms) THEN {pos}
    ELSE LET a == atoms[k] IN
         IF a.kind \in {"bol", "eol"}
         THEN IF a.star \/ (a.kind = "bol" /\ pos = 0) \/ (a.kind = "eol" /\ pos = Len(s))
              THEN MatchEnds(atoms, k + 1, s, pos)
              ELSE {}
         ELSE LET fits(c) == IF a.kind = "any" THEN c # "\n" ELSE c = a.ch
                  reach == {n \in 0..(Len(s) - pos) :
                               \A m \in 1..n : fits(s[pos + m])}
              IN  UNION {MatchEnds(atoms, k + 1, s, pos + n) :
                            n \in IF a.star THEN reach ELSE reach \cap {1}}

\* an unanchored search of the pattern in the name succeeds
HasMatch(pattern, name) ==
    /\ Compile(pattern).ok
    /\ \E start \in 0..Len(name) : MatchEnds(Compile(pattern).atoms, 1, name, start) # {}

\* the name attribute of a record
NameAttr(r) ==
    IF r.ResourceType = RESRC_PROCESS THEN r.ProcessCmdLine
    ELSE IF r.ResourceType = RESRC_USER THEN r.UserName
    ELSE IF r.ResourceType = RESRC_JAIL THEN r.JailName
    ELSE r.LoginClassName

\* what tells a record of a snapshot from the others: its type, its name
\* and, but for a login class, its identifier
RecIdent(r) ==
    <<r.ResourceType, NameAttr(r),
      IF r.ResourceType = RESRC_LOGINCLASS THEN <<>> ELSE r.ResourceID>>

CandIdent(subject, c) ==
    <<ResourceTypeOf(subject), c.name,
      IF subject = S_loginclass THEN <<>> ELSE Itoa(c.num)>>

RECURSIVE Idents(_)
Idents(rs) == IF rs = <<>> THEN <<>> ELSE <<RecIdent(Head(rs))>> \o Idents(Tail(rs))

\* whether a candidate is kept: by the filter of the code, or by the
\* unanchored search
Kept(how, pattern, name) ==
    IF how = "filter" THEN Survives(Compile(pattern).atoms, name)
    ELSE HasMatch(pattern, name)

RECURSIVE KeptIdents(_, _, _, _)
KeptIdents(how, rule, cs, i) ==
    IF i > Len(cs) THEN <<>>
    ELSE (IF Kept(how, RuleParts(rule)[2], cs[i].name)
          THEN <<CandIdent(RuleParts(rule)[1], cs[i])>>
          ELSE <<>>) \o KeptIdents(how, rule, cs, i + 1)

\* one record per rule and kept candidate of the rule's enumeration
RECURSIVE ExpectedIdents(_, _, _, _)
ExpectedIdents(how, rules, es, k) ==
    IF k > Len(rules) THEN <<>>
    ELSE KeptIdents(how, rules[k], es[k], 1) \o ExpectedIdents(how, rules, es, k + 1)

RefreshSucceeded(t) == pc[t] = "returned" /\ rerr[t] = "nil"

\* C1: when a kernel query of a Refresh fails, also after candidates or
\* rules that succeeded and also with accounting disabled, the Refresh
\* returns at once with an error and the snapshot is the one from before
\* the call.
C1_FailedQueryKeepsSnapshot ==
    \A t \in Threads :
        (kfailed[t] /\ pc[t] \in {"rule", "cand", "returned"})
            => /\ pc[t] = "returned"
               /\ rerr[t] = "err"
               /\ Resources = prev[t]

\* C1 witness: in a scrape, with accounting disabled, a query failed after
\* an earlier candidate had succeeded, and a snapshot was there before
C1_Witness ==
    /\ pc["s1"] = "returned"
    /\ kfailed["s1"]
    /\ ~Hosts[host].racct
    /\ Len(results["s1"] \o res["s1"]) > 0
    /\ prev["s1"] # <<>>
    /\ Resources = prev["s1"]

\* C2: after a successful Refresh the snapshot holds one record for every
\* rule and candidate of that rule's enumeration in this Refresh that
\* survives the rule's filter, and nothing else: nothing of the snapshot
\* before, whatever the raw strings were.
C2_SnapshotIsThisRefresh ==
    \A t \in Threads :
        RefreshSucceeded(t)
            => /\ Len(enums[t]) = Len(resrcesfilter)
               /\ Idents(Resources) = ExpectedIdents("filter", resrcesfilter, enums[t], 1)

\* C2 witness: a scrape refreshed with success, an entity of the snapshot
\* before is gone and a record carries a raw string that stops the parser
C2_Witness ==
    /\ RefreshSucceeded("s1")
    /\ \E i \in 1..Len(prev["s1"]) :
          \A j \in 1..Len(Resources) : RecIdent(prev["s1"][i]) # RecIdent(Resources[j])
    /\ \E j \in 1..Len(Resources) : Resources[j].RawResources = R_truncated

\* C3 (as claimed): a scrape whose Refresh returned an error sends
\* rctl_up = 0.
C3_UpIsZeroWhenRefreshFailed ==
    \A t \in Threads : (up[t] # -1 /\ rerr[t] = "err") => up[t] = 0

\* C4: after a successful Refresh, every record a rule contributed has the
\* rule's subject and a name in which the rule's pattern is found.
C4_RecordsMatchTheirRule ==
    \A t \in Threads :
        RefreshSucceeded(t)
            => /\ Len(origin[t]) = Len(Resources)
               /\ \A i \in 1..Len(Resources) :
                     LET s == RuleParts(resrcesfilter[origin[t][i]]) IN
                     /\ Resources[i].ResourceType = ResourceTypeOf(s[1])
                     /\ HasMatch(s[2], NameAttr(Resources[i]))

\* C4 witness: a snapshot with records of two rules of different subjects
C4_Witness ==
    /\ RefreshSucceeded("s1")
    /\ \E i, j \in 1..Len(Resources) :
          /\ origin["s1"][i] # origin["s1"][j]
          /\ Resources[i].ResourceType # Resources[j].ResourceType

\* C5 (as claimed): a candidate is queried and recorded exactly when an
\* unanchored search of the pattern in its name succeeds, also when the
\* leftmost match is the empty string.
C5_KeptIffPatternMatches ==
    \A t \in Threads :
        RefreshSucceeded(t)
            => Idents(Resources) = ExpectedIdents("search", resrcesfilter, enums[t], 1)

\* the rule at hand of the Refresh of t, and a step of its loop over the
\* rules (RefreshRule changes pc[t] or ri[t]; no other action does while
\* pc[t] = "rule" and a rule is left)
RuleOK(k) == Len(RuleParts(resrcesfilter[k])) = 2

SubjectOf(k) == RuleParts(resrcesfilter[k])[1]

PatternOf(k) == RuleParts(resrcesfilter[k])[2]

Supported(k) ==
    RuleOK(k) /\ \E i \in 1..Len(SUPPORTED_SUBJECTS) : SUPPORTED_SUBJECTS[i] = SubjectOf(k)

RuleStep(t) ==
    /\ pc[t] = "rule"
    /\ ri[t] <= Len(resrcesfilter)
    /\ <<pc[t], ri[t]>>' # <<pc[t], ri[t]>>

\* C11 (as claimed): a Refresh that has come to a rule whose subject is not
\* one of the four supported ones returns an error, and no kernel query is
\* issued for that rule.
C11_UnsupportedSubjectFails ==
    \A t \in Threads : \A k \in 1..Len(enums[t]) :
        (pc[t] = "returned" /\ RuleOK(k) /\ ~Supported(k))
            => /\ rerr[t] = "err"
               /\ \A q \in 1..Len(qrule[t]) : qrule[t][q] # k

\* C12 (as claimed): when a rule of the list has a pattern that does not
\* compile, the program ends in the fatal error during the construction of
\* the ResourceManager: the first Refresh never returns to main, and the
\* fatal error is never raised in a scrape.
C12_BadPatternFatalAtStartup ==
    (\E k \in 1..Len(resrcesfilter) : Supported(k) /\ ~Compile(PatternOf(k)).ok)
        => /\ pc["main"] \notin {"returned", "serving"}
           /\ \A t \in Threads \ {"main"} : pc[t] # "exited"

\* no candidate of the enumeration of rule k in the Refresh of t has a name
\* in which the rule's pattern is found
NoCandidateMatches(t, k) ==
    /\ k <= Len(enums[t])
    /\ Supported(k)
    /\ \A i \in 1..Len(enums[t][k]) : ~HasMatch(PatternOf(k), enums[t][k][i].name)

\* C13: a rule whose pattern is found in none of the enumerated candidates
\* has no kernel query issued for it, contributes no record, and is not the
\* rule a Refresh returns an error at: the Refresh fails only when another
\* rule fails, and the snapshot it commits has no record of that rule.
C13_NoMatchNoRecordNoError ==
    \A t \in Threads : \A k \in 1..Len(enums[t]) :
        NoCandidateMatches(t, k)
            => /\ \A q \in 1..Len(qrule[t]) : qrule[t][q] # k
               /\ \A i \in 1..Len(origin[t]) : origin[t][i] # k
               /\ (pc[t] = "returned" /\ rerr[t] = "err") => ri[t] # k
               /\ RefreshSucceeded(t) => Len(origin[t]) = Len(Resources)

\* C13 witness: a scrape refreshed with success; a rule had candidates and
\* none matched, another rule gave the records of the snapshot
C13_Witness ==
    /\ RefreshSucceeded("s1")
    /\ Resources # <<>>
    /\ \E k \in 1..Len(enums["s1"]) :
          NoCandidateMatches("s1", k) /\ enums["s1"][k] # <<>>

\* C14: the series a scrape sends after its Refresh returned an error are
\* the series of the snapshot the last successful Refresh committed, which
\* is the snapshot that was there when the failed Refresh began.
C14_FailedScrapeServesLastGood ==
    \A t \in Threads :
        (up[t] # -1 /\ rerr[t] = "err")
            => /\ lastGood = prev[t]
               /\ metrics[t] = EmitResources(lastGood, 1, <<>>).sent

\* C14 witness: a scrape whose Refresh failed after it had built records
\* sent the series of an earlier snapshot
C14_Witness ==
    /\ up["s1"] # -1
    /\ rerr["s1"] = "err"
    /\ metrics["s1"] # <<>>
    /\ results["s1"] \o res["s1"] # <<>>
    /\ results["s1"] \o res["s1"] # lastGood

\* C15 (as claimed): when the first Refresh returned an error,
\* NewResourceManager returns an error that is not nil.
C15_NewResourceManagerReportsFailure ==
    (newerr # "none" /\ rerr["main"] = "err") => newerr = "err"

\* the file a user rule or a loginclass rule reads cannot be read now
FileUnreadableAt(t) ==
    /\ RuleOK(ri[t])
    /\ \/ SubjectOf(ri[t]) = S_user /\ ~Hosts[host].passwdOK
       \/ SubjectOf(ri[t]) = S_loginclass /\ ~Hosts[host].loginconfOK

\* C16: a Refresh that comes to a user rule while the account database
\* cannot be read, or to a loginclass rule while the login-class file cannot
\* be read, returns an error, issues no kernel query, and leaves the
\* snapshot as it was before the call; the program goes on.
C16_UnreadableFileReturnsError ==
    [][\A t \in Threads :
          (RuleStep(t) /\ FileUnreadableAt(t))
              => /\ pc'[t] = "returned"
                 /\ rerr'[t] = "err"
                 /\ queries'[t] = queries[t]
                 /\ Resources' = Resources
                 /\ Resources' = prev[t]
                 /\ process' = "running"]_vars

\* C16 witness: a scrape returned the error of an enumerator (no kernel
\* query failed, the rule at hand was not enumerated) at a rule whose file
\* cannot be read, and the snapshot from before, with records, is in place
C16_Witness ==
    /\ pc["s1"] = "returned"
    /\ rerr["s1"] = "err"
    /\ ~kfailed["s1"]
    /\ Len(enums["s1"]) < ri["s1"]
    /\ FileUnreadableAt("s1")
    /\ prev["s1"] # <<>>
    /\ Resources = prev["s1"]

\* C17 (as claimed): a Refresh that comes to a process rule while the
\* process table cannot be read returns an error with the snapshot as it
\* was before the call, and the program goes on.
C17_UnreadableProcessTableReturnsError ==
    [][\A t \in Threads :
          (/\ RuleStep(t)
           /\ RuleOK(ri[t])
           /\ SubjectOf(ri[t]) = S_process
           /\ Compile(PatternOf(ri[t])).ok
           /\ ~Hosts[host].psOK)
              => /\ pc'[t] = "returned"
                 /\ rerr'[t] = "err"
                 /\ Resources' = prev[t]
                 /\ process' = "running"]_vars

\* C18 (as claimed): a Refresh that comes to a jail rule while the jail
\* parameter interface fails returns an error with the snapshot as it was
\* before the call.
C18_JailInterfaceFailureReturnsError ==
    [][\A t \in Threads :
          (/\ RuleStep(t)
           /\ RuleOK(ri[t])
           /\ SubjectOf(ri[t]) = S_jail
           /\ ~Hosts[host].jailOK)
              => /\ pc'[t] = "returned"
                 /\ rerr'[t] = "err"
                 /\ Resources' = prev[t]]_vars


\* the candidates the filter kept in the Refresh of t, in the order of the
\* rules and, within a rule, of its enumeration: [rule, c]
RECURSIVE KeptOfRule(_, _, _)
KeptOfRule(k, cs, i) ==
    IF i > Len(cs) THEN <<>>
    ELSE (IF Kept("filter", PatternOf(k), cs[i].name)
          THEN <<[rule |-> k, c |-> cs[i]]>>
          ELSE <<>>) \o KeptOfRule(k, cs, i + 1)

RECURSIVE KeptFrom(_, _)
KeptFrom(es, k) ==
    IF k > Len(es) THEN <<>>
    ELSE (IF Supported(k) THEN KeptOfRule(k, es[k], 1) ELSE <<>>) \o KeptFrom(es, k + 1)

AllKept(t) == KeptFrom(enums[t], 1)

\* the identifier of a candidate of a subject: pid, uid, jail id, class name
SubjectId(subject, c) == IF subject = S_loginclass THEN c.name ELSE Itoa(c.num)

\* C21 (as claimed): every record of a committed snapshot has the
\* identifier of its subject as ResourceID: pid, uid, jail id, class name.
C21_ResourceIDIsSubjectIdentifier ==
    \A t \in Threads :
        RefreshSucceeded(t)
            => LET kc == AllKept(t) IN
               /\ Len(Resources) = Len(kc)
               /\ \A i \in 1..Len(kc) :
                     Resources[i].ResourceID = SubjectId(SubjectOf(kc[i].rule), kc[i].c)

\* the identity attributes of a record, as the labels of its series
IdentityLabels(r) ==
    IF r.ResourceType = RESRC_PROCESS THEN <<r.ResourceID, r.ProcessName, r.ProcessCmdLine>>
    ELSE IF r.ResourceType = RESRC_USER THEN <<r.ResourceID, r.UserName>>
    ELSE IF r.ResourceType = RESRC_JAIL THEN <<r.ResourceID, r.JailName>>
    ELSE <<r.LoginClassName>>

\* one series, by name and labels, for every segment of a record's raw
\* string that has a "="
RECURSIVE SeriesOfSegments(_, _, _)
SeriesOfSegments(r, ss, i) ==
    IF i > Len(ss) THEN <<>>
    ELSE (IF IndexFrom(ss[i], "=", 1) <= Len(ss[i])
          THEN <<[name |-> MetricPrefix \o SubjectOfType(r.ResourceType) \o <<"_">>
                              \o SubSeq(ss[i], 1, IndexFrom(ss[i], "=", 1) - 1),
                  labels |-> IdentityLabels(r)]>>
          ELSE <<>>) \o SeriesOfSegments(r, ss, i + 1)

RECURSIVE SeriesOfSnapshot(_, _)
SeriesOfSnapshot(rs, k) ==
    IF k > Len(rs) THEN <<>>
    ELSE SeriesOfSegments(rs[k], Split(rs[k].RawResources, ","), 1)
             \o SeriesOfSnapshot(rs, k + 1)

NameAndLabels(ms) == [i \in 1..Len(ms) |-> [name |-> ms[i].name, labels |-> ms[i].labels]]

\* C22 (as claimed): a scrape sends one series for every record of the
\* snapshot and every key=value segment of its raw string, with the name
\* and the labels of the record, and one rctl_up sample.
C22_OneSeriesPerSegment ==
    \A t \in Threads :
        up[t] # -1
            => /\ up[t] \in {0, 1}
               /\ NameAndLabels(metrics[t]) = SeriesOfSnapshot(Resources, 1)

\* a scrape cycle is under way in the goroutine t: its Refresh is active or
\* it has yet to read the snapshot
InCycle(t) == pc[t] \in {"rule", "cand", "returned"}

\* C23 (as claimed): of two scrape cycles run at once, one is never inside
\* its Refresh or its read of the snapshot while the other is, and a cycle
\* whose Refresh committed has sent the series of the list it committed.
C23_ScrapesSerialized ==
    /\ \A t, u \in ConcScrapers : (InCycle(t) /\ InCycle(u)) => t = u
    /\ \A t \in ConcScrapers :
           (pc[t] = "idle" /\ up[t] # -1 /\ rerr[t] = "nil")
               => metrics[t] = EmitResources(results[t], 1, <<>>).sent

\* C24: while a Refresh is under way, from its first statement to its
\* return, the snapshot is the one from before the call; the snapshot
\* changes only in the step in which a Refresh that is through with every
\* rule returns nil, and then to the complete list that Refresh built.
C24_SnapshotReplacedInOneStep ==
    [][/\ \A t \in Threads :
             (pc'[t] \in {"rule", "cand"} \/ (pc'[t] = "returned" /\ rerr'[t] = "err"))
                 => Resources' = prev'[t]
       /\ Resources' # Resources
             => \E t \in Threads :
                   /\ pc[t] = "rule"
                   /\ ri[t] > Len(resrcesfilter)
                   /\ Len(enums[t]) = Len(resrcesfilter)
                   /\ rerr'[t] = "nil"
                   /\ Resources' = results[t]
                   /\ Idents(Resources') = ExpectedIdents("filter", resrcesfilter, enums[t], 1)]_vars

\* C24 witness: a scrape is between two kernel queries of a rule, after an
\* earlier rule, with records built that the snapshot does not show
C24_Witness ==
    /\ pc["s1"] = "cand"
    /\ ri["s1"] > 1
    /\ res["s1"] # <<>>
    /\ results["s1"] # <<>>
    /\ ci["s1"] <= Len(cands["s1"])
    /\ Resources = prev["s1"]
    /\ Resources # results["s1"] \o res["s1"]

\* the kernel queries of the Refresh of t so far are those of the first
\* kept candidates, in the order of the rules and of the enumerations, and
\* the rules were enumerated one after the other, each once
QueriesInOrder(t) ==
    /\ LET kc == AllKept(t) IN
       /\ Len(queries[t]) <= Len(kc)
       /\ Len(qrule[t]) = Len(queries[t])
       /\ \A q \in 1..Len(queries[t]) :
             /\ qrule[t][q] = kc[q].rule
             /\ queries[t][q] = QueryOf(SubjectOf(kc[q].rule), kc[q].c)
    /\ Len(enums[t]) <= Len(resrcesfilter)
    /\ pc[t] \in {"rule", "cand"} => Len(enums[t]) \in {ri[t] - 1, ri[t]}

\* C25: the kernel queries of a Refresh are those of the kept candidates,
\* rule after rule in the configured order and candidate after candidate
\* in the order of the enumeration, each once; and once a query has failed
\* or the Refresh has returned an error, it issues no query and calls no
\* enumerator any more.
C25_InOrderOnceNoRetry ==
    /\ [](\A t \in Threads : QueriesInOrder(t))
    /\ [][\A t \in Threads :
             ((kfailed[t] /\ kfailed'[t]) \/ (rerr[t] = "err" /\ rerr'[t] = "err"))
                 => (queries'[t] = queries[t] /\ enums'[t] = enums[t])]_vars

\* C25 witness: a scrape queried candidates of two rules, the last query
\* failed, and candidates and rules were left
C25_Witness ==
    /\ pc["s1"] = "returned"
    /\ kfailed["s1"]
    /\ Len(queries["s1"]) >= 3
    /\ qrule["s1"][1] # qrule["s1"][Len(qrule["s1"])]
    /\ ci["s1"] < Len(cands["s1"])
    /\ ri["s1"] < Len(resrcesfilter)

\* C26 (as claimed): every query handed to the kernel is subject, ":",
\* identifier, ":" with the pid, the uid, the jail name or the class name
\* of a kept candidate as identifier.
C26_QueryHasTrailingColon ==
    \A t \in Threads :
        LET kc == AllKept(t) IN
        /\ Len(queries[t]) <= Len(kc)
        /\ \A q \in 1..Len(queries[t]) :
              LET subject == SubjectOf(kc[q].rule)
                  id      == IF subject \in {S_process, S_user}
                             THEN Itoa(kc[q].c.num) ELSE kc[q].c.name
              IN  queries[t][q] = subject \o <<":">> \o id \o <<":">>

\* C29 (as claimed): a Refresh never leaves with a panic at a rule that has
\* no colon: it returns a result or an error.
C29_RuleWithoutColonDoesNotCrash ==
    \A t \in Threads :
        ~(pc[t] = "panicked" /\ ri[t] \in 1..Len(resrcesfilter) /\ ~RuleOK(ri[t]))

\* C30 (as claimed): in a committed snapshot no two records of the same
\* ResourceType have the same ResourceID.
C30_ResourceIDUniquePerType ==
    \A i, j \in 1..Len(Resources) :
        (i # j /\ Resources[i].ResourceType = Resources[j].ResourceType)
            => Resources[i].ResourceID # Resources[j].ResourceID


(***************************************************************************)
(* The parser on its own: parseResource applied to raw accounting strings. *)
(* A raw string is put together from segment descriptions, so that what    *)
(* was written into the string is known apart from what the parser reads   *)
(* out of it.                                                              *)
(***************************************************************************)

K_madeupkey == <<"m", "a", "d", "e", "u", "p", "k", "e", "y">>

\* a well-formed segment key=integer
KV(k, n) == [kind |-> "kv", key |-> k, val |-> n, text |-> k \o <<"=">> \o Itoa(n)]

\* a segment with no "="
NoSplit(t) == [kind |-> "nosplit", key |-> <<>>, val |-> 0, text |-> t]

\* a segment with two or more "="
MultiEq(k, t) == [kind |-> "multieq", key |-> k, val |-> 0, text |-> k \o <<"=">> \o t]

\* a segment key=text whose text is no integer of the int type
BadVal(k, t) == [kind |-> "badval", key |-> k, val |-> 0, text |-> k \o <<"=">> \o t]

\* the segments that may stand anywhere in a raw string
CtxSegs ==
    {KV(K_cputime, 120), KV(K_memoryuse, 4096), KV(K_madeupkey, 5),
     NoSplit(<<"b", "a", "d", "s", "e", "g", "m", "e", "n", "t">>),
     MultiEq(K_cputime, <<"1", "=", "2">>),
     BadVal(K_wallclock, <<"9", "9", "9", "9", "9", "9", "9", "9", "9", "9", "9">>)}

\* every recognised key with a value, and the other shapes of segment; at
\* most one segment of a raw string is taken outside CtxSegs
AllSegs ==
    CtxSegs \cup
    {KV(K_cputime, 120),
     KV(K_datasize, 1),
     KV(K_stacksize, 2147483647),
     KV(K_coredumpsize, 7),
     KV(K_memoryuse, 4096),
     KV(K_memorylocked, 65536),
     KV(K_maxproc, 3),
     KV(K_openfiles, 12),
     KV(K_vmemoryuse, 1048576),
     KV(K_pseudoterminals, 2),
     KV(K_swapuse, 8192),
     KV(K_nthr, 5),
     KV(K_msgqqueued, 9),
     KV(K_msgqsize, 1024),
     KV(K_nmsgq, 4),
     KV(K_nsem, 6),
     KV(K_nsemop, 11),
     KV(K_nshm, 13),
     KV(K_shmsize, 2048),
     KV(K_wallclock, 600),
     KV(K_pcpu, 99),
     KV(K_readbps, 1000),
     KV(K_writebps, 2000),
     KV(K_readiops, 30),
     KV(K_writeiops, 40),
     KV(K_cputime, 10), KV(K_memoryuse, 99), KV(K_wallclock, 600), KV(K_pcpu, 0),
     KV(K_openfiles, -5),
     NoSplit(<<>>), NoSplit(K_cputime),
     MultiEq(K_memoryuse, <<"=", "3">>), MultiEq(K_madeupkey, <<"b", "=", "c">>),
     BadVal(K_cputime, <<>>), BadVal(K_memoryuse, <<"1", "x">>),
     BadVal(K_nthr, <<"a", "b", "c">>), BadVal(K_datasize, <<"2", "1", "4", "7", "4", "8", "3", "6", "4", "8">>),
     BadVal(K_pcpu, <<"-">>), BadVal(K_swapuse, <<"-", "2", "1", "4", "7", "4", "8", "3", "6", "4", "9">>)}

SegLists ==
    UNION {[1..n -> CtxSegs] \cup
           {[ds EXCEPT ![i] = x] : ds \in [1..n -> CtxSegs], i \in 1..n, x \in AllSegs} :
              n \in 0..MaxSegs}

RECURSIVE Texts(_)
Texts(ds) == IF ds = <<>> THEN <<>> ELSE <<Head(ds).text>> \o Texts(Tail(ds))

\* the raw string a list of segments makes
Render(ds) == Join(Texts(ds), <<",">>)

Subjects == {S_process, S_user, S_loginclass, S_jail}

ParseInit ==
    /\ segs \in SegLists
    /\ resrc = Render(segs)
    /\ psubject = <<>>
    /\ parsed = ZeroResource
    /\ ppc = "input"
    /\ resrcesfilter = <<>>
    /\ Resources = <<>>
    /\ host = 1
    /\ process = "off"
    /\ pc = [t \in Threads |-> "off"]
    /\ ri = [t \in Threads |-> 0]
    /\ cands = [t \in Threads |-> <<>>]
    /\ ci = [t \in Threads |-> 0]
    /\ res = [t \in Threads |-> <<>>]
    /\ results = [t \in Threads |-> <<>>]
    /\ rerr = [t \in Threads |-> "none"]
    /\ up = [t \in Threads |-> -1]
    /\ metrics = [t \in Threads |-> <<>>]
    /\ prev = [t \in Threads |-> <<>>]
    /\ enums = [t \in Threads |-> <<>>]
    /\ origin = [t \in Threads |-> <<>>]
    /\ queries = [t \in Threads |-> <<>>]
    /\ kfailed = [t \in Threads |-> FALSE]
    /\ qrule = [t \in Threads |-> <<>>]
    /\ lastGood = <<>>
    /\ newerr = "none"
    /\ collects = 0
    /\ hostChanges = 0
    /\ fkind = "off"
    /\ flines = <<>>
    /\ fdata = <<>>
    /\ fout = [kind |-> "none", list |-> <<>>]
    /\ fpc = "off"
    /\ JailsOff
    /\ RacctOff

\* result = parseResource(subject, buf)
CallParseResource ==
    /\ ppc = "input"
    /\ \E subject \in Subjects :
          /\ psubject' = subject
          /\ parsed' = parseResource(subject, resrc)
    /\ ppc' = "done"
    /\ UNCHANGED <<segs, resrc, mainVars, fileVars, jailVars, racctVars>>

ParseNext == CallParseResource

ParseSpec == ParseInit /\ [][ParseNext]_vars

(***************************************************************************)
(* Claims about parseResource (checked under ParseSpec).                   *)
(***************************************************************************)
\* the recognised keys and the field of each, as the claims list them
RecognisedKeys ==
    <<<<K_cputime, "CPUTime">>,
      <<K_datasize, "DataSize">>,
      <<K_stacksize, "StackSize">>,
      <<K_coredumpsize, "CoreDumpSize">>,
      <<K_memoryuse, "MemoryUse">>,
      <<K_memorylocked, "MemoryLocked">>,
      <<K_maxproc, "MaxProc">>,
      <<K_openfiles, "OpenFiles">>,
      <<K_vmemoryuse, "VMemoryUse">>,
      <<K_pseudoterminals, "PseudoTerminals">>,
      <<K_swapuse, "SwapUse">>,
      <<K_nthr, "NThr">>,
      <<K_msgqqueued, "MsgQQueued">>,
      <<K_msgqsize, "MsgQSize">>,
      <<K_nmsgq, "NMsgQ">>,
      <<K_nsem, "NSem">>,
      <<K_nsemop, "NSemop">>,
      <<K_nshm, "NShm">>,
      <<K_shmsize, "ShmSize">>,
      <<K_wallclock, "WallClock">>,
      <<K_pcpu, "PCpu">>,
      <<K_readbps, "ReadBps">>,
      <<K_writebps, "WriteBps">>,
      <<K_readiops, "ReadIops">>,
      <<K_writeiops, "WriteIops">>>>

\* the value the last segment key=integer with key k among the first n
\* segments carries, 0 when there is none
RECURSIVE LastVal(_, _, _)
LastVal(ds, k, n) ==
    IF n = 0 THEN 0
    ELSE IF ds[n].kind = "kv" /\ ds[n].key = k THEN ds[n].val
    ELSE LastVal(ds, k, n - 1)

AllKV(ds, n) == \A i \in 1..n : ds[i].kind = "kv"

IsRecognised(k) == \E i \in 1..Len(RecognisedKeys) : RecognisedKeys[i][1] = k

FieldOf(k) == RecognisedKeys[CHOOSE i \in 1..Len(RecognisedKeys) : RecognisedKeys[i][1] = k][2]

\* C6: a raw string made only of well-formed key=integer segments parses to
\* a record where every recognised key present has its value in its field
\* (the last one when the key is repeated), every other numeric field is 0,
\* and an unrecognised key neither changes a field nor stops the parsing.
C6_WellFormedSegmentsParsed ==
    (ppc = "done" /\ Len(segs) >= 1 /\ AllKV(segs, Len(segs)))
        => /\ \A i \in 1..Len(RecognisedKeys) :
                 parsed[RecognisedKeys[i][2]] = LastVal(segs, RecognisedKeys[i][1], Len(segs))
           /\ \A f \in NumericFields :
                 (\A i \in 1..Len(segs) : ~(IsRecognised(segs[i].key) /\ FieldOf(segs[i].key) = f))
                     => parsed[f] = 0

\* C6 witness: "madeupkey=5,cputime=120,wallclock=600" was parsed
C6_Witness ==
    /\ ppc = "done"
    /\ Len(segs) = 3
    /\ segs[1] = KV(K_madeupkey, 5)
    /\ segs[2] = KV(K_cputime, 120)
    /\ segs[3] = KV(K_wallclock, 600)
    /\ parsed.CPUTime = 120
    /\ parsed.WallClock = 600
    /\ parsed.MemoryUse = 0

\* the first segment with no "=" in it, 0 when there is none
FirstNoSplit(ds) ==
    IF \E i \in 1..Len(ds) : ds[i].kind = "nosplit"
    THEN CHOOSE i \in 1..Len(ds) :
             ds[i].kind = "nosplit" /\ \A j \in 1..(i - 1) : ds[j].kind # "nosplit"
    ELSE 0

\* C7: at a segment that does not split into key and value the parsing
\* stops: the fields keep what the well-formed segments before it gave
\* them, a key that only comes later leaves its field 0, and a record is
\* returned.
C7_StopsAtUnsplittableSegment ==
    LET j == FirstNoSplit(segs) IN
    (ppc = "done" /\ j > 0 /\ AllKV(segs, j - 1))
        => /\ \A i \in 1..Len(RecognisedKeys) :
                 parsed[RecognisedKeys[i][2]] = LastVal(segs, RecognisedKeys[i][1], j - 1)
           /\ parsed.ResourceType = ResourceTypeOf(psubject)

\* C7 witness: "cputime=120,badsegment,memoryuse=99" was parsed
C7_Witness ==
    /\ ppc = "done"
    /\ Len(segs) = 3
    /\ segs[1] = KV(K_cputime, 120)
    /\ segs[2].kind = "nosplit"
    /\ segs[3] = KV(K_memoryuse, 99)
    /\ parsed.CPUTime = 120
    /\ parsed.MemoryUse = 0

\* C8 (as claimed): a segment is cut at its first "=" only, so a segment
\* with two or more "=" is a key with a non-numeric value and the segments
\* after it are still parsed.
C8_SplitAtFirstEqualsOnly ==
    (ppc = "done" /\ \A i \in 1..Len(segs) : segs[i].kind \in {"kv", "multieq"})
        => \A i \in 1..Len(segs) :
              (/\ segs[i].kind = "kv"
               /\ IsRecognised(segs[i].key)
               /\ \A j \in (i + 1)..Len(segs) : segs[j].key # segs[i].key)
                  => parsed[FieldOf(segs[i].key)] = segs[i].val

\* C9 (as claimed): a recognised key whose value fails numeric conversion
\* leaves its field 0, the other fields are as the other segments set them
\* and the segments after it are still parsed.
C9_FailedConversionLeavesZero ==
    (ppc = "done" /\ \A i \in 1..Len(segs) : segs[i].kind \in {"kv", "badval"})
        => \A i \in 1..Len(segs) :
              (\A j \in (i + 1)..Len(segs) : segs[j].key # segs[i].key)
                  => (IF segs[i].kind = "badval"
                      THEN parsed[FieldOf(segs[i].key)] = 0
                      ELSE IsRecognised(segs[i].key)
                               => parsed[FieldOf(segs[i].key)] = segs[i].val)

\* C10: the record returned has RawResources equal to the whole input.
C10_RawResourcesIsInput ==
    ppc = "done" => parsed.RawResources = resrc

\* C10 witness: the parsing stopped early, before the end of a raw string
C10_Witness ==
    /\ ppc = "done"
    /\ Len(segs) = 3
    /\ segs[1].kind = "kv"
    /\ segs[2].kind = "nosplit"
    /\ segs[3].kind = "kv"
    /\ parsed.RawResources = resrc
    /\ Len(resrc) > Len(segs[1].text)

(***************************************************************************)
(* The file enumerators on their own: getUsersFromPasswd and               *)
(* getLoginClasses applied to file contents.  A content is put together    *)
(* from line descriptions, so that what was written into a line is known   *)
(* apart from what the enumerator reads out of it.                         *)
(***************************************************************************)
\* the number of lines of a file
MaxLines == 3

\* a line of the account database: name:*:uid and the fields after it
PwEntry(name, uid, rest) ==
    [kind |-> "entry", name |-> name, uid |-> uid,
     text |-> name \o <<":", "*", ":">> \o Itoa(uid) \o rest]

\* a line of the login-class file that opens a class: name, its aliases,
\* ":" and the rest of the line
LcClass(name, aliases, rest) ==
    [kind |-> "class", name |-> name, uid |-> 0, text |-> name \o aliases \o <<":">> \o rest]

\* any other line; name is what stands before the first ":"
OtherLine(kind, name, text) == [kind |-> kind, name |-> name, uid |-> 0, text |-> text]

PasswdLineSet ==
    {PwEntry(<<"r">>, 0, <<>>),
     PwEntry(<<"a", "b">>, 1001, <<":", "1", "0", ":", "x">>),
     OtherLine("comment", <<>>, <<"#", "c", ":", "x">>),
     OtherLine("blank", <<>>, <<>>),
     OtherLine("short", <<"b">>, <<"b">>),
     OtherLine("short", <<"n">>, <<"n", ":", "x">>)}

LoginConfLineSet ==
    {LcClass(<<"a">>, <<>>, <<"\\">>),
     LcClass(<<"b">>, <<"|", "c">>, <<"\\">>),
     LcClass(<<"d">>, <<>>, <<"x", "=", "1", ":">>),
     OtherLine("continuation", <<>>, <<"\t", ":", "x", "=", "1", ":", "\\">>),
     OtherLine("continuation", <<>>, <<"\t", ":", "x", "=", "1">>),
     OtherLine("continuation", <<>>, <<" ", ":", "y", "=", "2">>),
     OtherLine("comment", <<>>, <<"#", "c", ":">>),
     OtherLine("blank", <<>>, <<>>)}

FileLineLists(S) == UNION {[1..n -> S] : n \in 0..MaxLines}

\* the program is not running
ProgramOff ==
    /\ resrcesfilter = <<>>
    /\ Resources = <<>>
    /\ host = 1
    /\ process = "off"
    /\ pc = [t \in Threads |-> "off"]
    /\ ri = [t \in Threads |-> 0]
    /\ cands = [t \in Threads |-> <<>>]
    /\ ci = [t \in Threads |-> 0]
    /\ res = [t \in Threads |-> <<>>]
    /\ results = [t \in Threads |-> <<>>]
    /\ rerr = [t \in Threads |-> "none"]
    /\ up = [t \in Threads |-> -1]
    /\ metrics = [t \in Threads |-> <<>>]
    /\ prev = [t \in Threads |-> <<>>]
    /\ enums = [t \in Threads |-> <<>>]
    /\ origin = [t \in Threads |-> <<>>]
    /\ queries = [t \in Threads |-> <<>>]
    /\ kfailed = [t \in Threads |-> FALSE]
    /\ qrule = [t \in Threads |-> <<>>]
    /\ lastGood = <<>>
    /\ newerr = "none"
    /\ collects = 0
    /\ hostChanges = 0
    /\ segs = <<>>
    /\ resrc = <<>>
    /\ psubject = <<>>
    /\ parsed = ZeroResource
    /\ ppc = "off"

\* a file of either kind, with or without a newline after its last line
FileInit ==
    /\ fkind \in {"passwd", "loginconf"}
    /\ flines \in FileLineLists(IF fkind = "passwd" THEN PasswdLineSet ELSE LoginConfLineSet)
    /\ \E trail \in {<<>>, <<"\n">>} : fdata = Join(Texts(flines), <<"\n">>) \o trail
    /\ fout = [kind |-> "none", list |-> <<>>]
    /\ fpc = "input"
    /\ ProgramOff
    /\ JailsOff
    /\ RacctOff

\* usrs, err := getUsersFromPasswd()
CallGetUsersFromPasswd ==
    /\ fpc = "input"
    /\ fkind = "passwd"
    /\ fout' = getUsersFromPasswd([HostNormal EXCEPT !.passwdOK = TRUE, !.passwd = fdata])
    /\ fpc' = "done"
    /\ UNCHANGED <<fkind, flines, fdata, mainVars, parseVars, jailVars, racctVars>>

\* lcs, err := getLoginClasses()
CallGetLoginClasses ==
    /\ fpc = "input"
    /\ fkind = "loginconf"
    /\ fout' = getLoginClasses([HostNormal EXCEPT !.loginconfOK = TRUE, !.loginconf = fdata])
    /\ fpc' = "done"
    /\ UNCHANGED <<fkind, flines, fdata, mainVars, parseVars, jailVars, racctVars>>

FileNext == CallGetUsersFromPasswd \/ CallGetLoginClasses

FileSpec == FileInit /\ [][FileNext]_vars

(***************************************************************************)
(* Claims about the file enumerators (checked under FileSpec).             *)
(***************************************************************************)
\* the lines a claim counts: not blank, not a comment and, for the
\* login-class file, not starting with a space or a tab
CountedPasswdLine(d) == d.text # <<>> /\ d.text[1] # "#"

CountedLoginConfLine(d) == d.text # <<>> /\ d.text[1] \notin {"#", " ", "\t"}

\* C19 (as claimed): for every content of the account database the user
\* enumerator completes, with one candidate for each line that is not
\* blank and not a comment, in the order of the file, named after field 0
\* and, where field 2 is a number, with that number as uid.
C19_OneUserPerLine ==
    (fpc = "done" /\ fkind = "passwd")
        => LET want == SelectSeq(flines, CountedPasswdLine) IN
           /\ fout.kind = "ok"
           /\ Len(fout.list) = Len(want)
           /\ \A i \in 1..Len(want) :
                 /\ fout.list[i].name = want[i].name
                 /\ want[i].kind = "entry" => fout.list[i].num = want[i].uid

\* C20 (as claimed): for every content of the login-class file the
\* enumerator returns one class for each line that is not blank, not a
\* comment and does not start with a space or a tab, named by what stands
\* before the first "|" of its first field, and no class for another line.
C20_OneClassPerUnindentedLine ==
    (fpc = "done" /\ fkind = "loginconf")
        => LET want == SelectSeq(flines, CountedLoginConfLine) IN
           /\ fout.kind = "ok"
           /\ Len(fout.list) = Len(want)
           /\ \A i \in 1..Len(want) : fout.list[i].name = want[i].name

(***************************************************************************)
(* The jail enumerator on its own: getJails applied to the jails of a      *)
(* host.                                                                   *)
(***************************************************************************)
\* the largest jail id of a host
MaxJid == 4

JailNames == {<<"a">>, <<"b", "b">>}

\* the jails of a table that gives every jid the name of its jail, <<>>
\* where there is none
RECURSIVE JailsOfTable(_, _)
JailsOfTable(tab, i) ==
    IF i > Len(tab) THEN <<>>
    ELSE (IF tab[i] = <<>> THEN <<>>
          ELSE <<[jid |-> i, name |-> tab[i], racct |-> R_one]>>) \o JailsOfTable(tab, i + 1)

JailInit ==
    /\ jailtab \in [1..MaxJid -> {<<>>} \cup JailNames]
    /\ jout = [kind |-> "none", list |-> <<>>]
    /\ jpc = "input"
    /\ ProgramOff
    /\ FilesOff
    /\ RacctOff

\* jls, err := getJails()
CallGetJails ==
    /\ jpc = "input"
    /\ jout' = getJails([HostNormal EXCEPT !.jailOK = TRUE,
                                           !.jails = JailsOfTable(jailtab, 1)])
    /\ jpc' = "done"
    /\ UNCHANGED <<jailtab, mainVars, parseVars, fileVars, racctVars>>

JailNext == CallGetJails

JailSpec == JailInit /\ [][JailNext]_vars

\* C28: for every set of jails, getJails returns every jail once, with its
\* name and its jid, in the order of the jids, and nothing else.
C28_EveryJailOnceInCursorOrder ==
    jpc = "done"
        => LET ids == {i \in 1..Len(jailtab) : jailtab[i] # <<>>} IN
           /\ jout.kind = "ok"
           /\ Len(jout.list) = Cardinality(ids)
           /\ \A n \in 1..Len(jout.list) :
                 /\ jout.list[n].num \in ids
                 /\ jout.list[n].name = jailtab[jout.list[n].num]
                 /\ n > 1 => jout.list[n - 1].num < jout.list[n].num

\* C28 witness: jails with jids that follow each other and jids that do
\* not were enumerated
C28_Witness ==
    /\ jpc = "done"
    /\ jailtab[1] # <<>>
    /\ jailtab[2] # <<>>
    /\ jailtab[3] = <<>>
    /\ jailtab[4] # <<>>
    /\ Len(jout.list) = 3

(***************************************************************************)
(* The kernel query on its own: rctlGetRacct applied to the output buffer  *)
(* the system call filled.                                                 *)
(***************************************************************************)
\* _out := make([]byte, 1024)
OutLen == 1024

\* the buffer with a string of k bytes, zero after it
BufferWith(k) == [i \in 1..OutLen |-> IF i <= k THEN "a" ELSE NUL]

RacctInit ==
    /\ \E k \in 0..OutLen : outbuf = BufferWith(k)
    /\ racctret = [err |-> FALSE, buf |-> <<>>]
    /\ rpc = "input"
    /\ ProgramOff
    /\ FilesOff
    /\ JailsOff

\* buf, err := rctlGetRacct(rule), the system call having failed or not
CallRctlGetRacct ==
    /\ rpc = "input"
    /\ \E e \in BOOLEAN : racctret' = rctlGetRacct([errno |-> e, out |-> outbuf])
    /\ rpc' = "done"
    /\ UNCHANGED <<outbuf, mainVars, parseVars, fileVars, jailVars>>

RacctNext == CallRctlGetRacct

RacctSpec == RacctInit /\ [][RacctNext]_vars

\* C27 (as claimed): after a successful system call rctlGetRacct returns
\* the bytes of the buffer before its first zero byte: all the bytes of the
\* buffer when it has no zero byte, the empty string when the first byte
\* is zero.
C27_BytesBeforeFirstZero ==
    (rpc = "done" /\ ~racctret.err)
        => LET zeros == {i \in 1..Len(outbuf) : outbuf[i] = NUL} IN
           racctret.buf = IF zeros = {} THEN outbuf
                          ELSE SubSeq(outbuf, 1, (CHOOSE i \in zeros : \A j \in zeros : i <= j) - 1)

=============================================================================
